---- MODULE Spec2Model ----
(***************************************************************************)
(* Model of the transcription pipeline of speach_text_analyse:             *)
(*   TranscriptionService.run / process_file   (src/app/services.py)       *)
(*   Normaliser.post_process and its chunker   (output_normaliser.py)      *)
(*   AudioChunker.split                        (media_chunker.py)          *)
(* Text is a sequence of one-character strings; the file system is the set *)
(* of names in the input and archive directories; the database is three    *)
(* tables kept as sequences, a record's id being its position.             *)
(***************************************************************************)
EXTENDS Naturals, Integers, Sequences, FiniteSets, TLC

(***************************************************************************)
(* Bounds of the model.                                                    *)
(***************************************************************************)
\* MediaRecords the runs may create in one behaviour
MaxMedia == 2
\* failures of the environment (a collaborator or the file system raising, a
\* file taken away) in one behaviour
MaxFaults == 1
\* segment files the splits of one behaviour may produce, all together
MaxSegments == 2
\* segments of the long recording: the first count at which an ordinal has
\* more digits than the padding of the segment names
LongSegments == 1001
\* the longest text handed to a chunker on its own
MaxTextLen == 5
\* the largest budget handed to a chunker on its own
MaxBudget == 4
\* the largest chunk_size_mb handed to the segment duration
MaxBudgetMB == 64
\* segments ffmpeg may cut one input into, when split is followed on its own
MaxOrdinals == 3
\* invocations of split on one output directory in one behaviour
MaxCalls == 2
\* words, blanks and marks a segment text handed to clean_text is made of
MaxPieces == 4
\* segments handed to format_diarization
MaxFmtSegments == 3
\* stand-in for chunk_size = 1000 of _text_splitter (services.py:69), scaled
\* down so that texts of a few characters are split into several chunks
CHUNK_SIZE == 3
\* stand-in for DEFAULT_CHUNK_SIZE = 20000 * 4 (output_normaliser.py:37),
\* scaled down in the same way
DEFAULT_CHUNK_SIZE == 4

(***************************************************************************)
(* Program constants.                                                      *)
(***************************************************************************)
\* 1024 * 5: the minimum size of a segment worth transcribing
MIN_SEGMENT_BYTES == 5120
\* the width of the zero-padded ordinal in "{file_name}_%03d.wav"
PAD_WIDTH == 3
\* bytes_per_sec of AudioChunker.split: 16 kHz, 16 bit, mono
BYTES_PER_SEC == 32000
\* max_retries of _gemini_api_call
MAX_RETRIES == 3
\* backoff_factor of _gemini_api_call
BACKOFF_FACTOR == 2

\* Python's None, where a text is expected
None == <<"None">>
\* _gemini_api_call raised after its last attempt
FAIL == <<"fail">>
NL == "\n"
SP == " "
\* the characters str.strip() and textwrap treat as whitespace
Whitespace == {SP, NL}
\* the paragraph separator "\n\n"
SEP == <<NL, NL>>

(***************************************************************************)
(* Python's str and list operations, as the code uses them.                *)
(***************************************************************************)
RECURSIVE SplitFrom(_, _, _)
\* text.split("\n\n") from position i on, cur being the piece read so far:
\* separators are matched left to right and do not overlap
SplitFrom(s, i, cur) ==
  IF i > Len(s) THEN <<cur>>
  ELSE IF i < Len(s) /\ s[i] = NL /\ s[i + 1] = NL
       THEN <<cur>> \o SplitFrom(s, i + 2, <<>>)
       ELSE SplitFrom(s, i + 1, Append(cur, s[i]))

\* text.split("\n\n")
SplitParagraphs(s) == SplitFrom(s, 1, <<>>)

RECURSIVE Join(_, _)
\* sep.join(parts)
Join(parts, sep) ==
  IF parts = <<>> THEN <<>>
  ELSE IF Len(parts) = 1 THEN parts[1]
  ELSE parts[1] \o sep \o Join(Tail(parts), sep)

RECURSIVE LStrip(_)
LStrip(s) == IF s # <<>> /\ Head(s) \in Whitespace THEN LStrip(Tail(s)) ELSE s

RECURSIVE RStrip(_)
RStrip(s) ==
  IF s # <<>> /\ s[Len(s)] \in Whitespace
  THEN RStrip(SubSeq(s, 1, Len(s) - 1)) ELSE s

\* str.strip()
Strip(s) == RStrip(LStrip(s))

(***************************************************************************)
(* TranscriptionService._text_splitter                                     *)
(***************************************************************************)
RECURSIVE TextSplitterLoop(_, _, _, _)
\* the for loop over paragraphs, then the flush of the last chunk
TextSplitterLoop(paragraphs, chunk_size, chunks, current_chunk) ==
  IF paragraphs = <<>>
  THEN IF current_chunk # <<>> THEN Append(chunks, Strip(current_chunk))
                               ELSE chunks
  ELSE LET para == Head(paragraphs) IN
       IF Len(current_chunk) + Len(para) < chunk_size
       THEN TextSplitterLoop(Tail(paragraphs), chunk_size, chunks,
                             current_chunk \o para \o SEP)
       ELSE TextSplitterLoop(Tail(paragraphs), chunk_size,
                             Append(chunks, Strip(current_chunk)),
                             para \o SEP)

_text_splitter(text, chunk_size) ==
  TextSplitterLoop(SplitParagraphs(text), chunk_size, <<>>, <<>>)

(***************************************************************************)
(* textwrap.wrap(paragraph, width, break_long_words=False), which          *)
(* _create_smart_chunks uses to force-split a paragraph.  The alphabet of  *)
(* the model has no tab and no hyphen, so expand_tabs and break_on_hyphens *)
(* have nothing to act on.                                                 *)
(***************************************************************************)
\* TextWrapper._munge_whitespace: every whitespace character becomes a space
MungeWhitespace(s) == [k \in 1..Len(s) |-> IF s[k] \in Whitespace THEN SP ELSE s[k]]

HYPHEN == "-"

\* a character the word separator of TextWrapper takes as a letter
IsLetter(s, k) == k \in 1..Len(s) /\ s[k] \notin Whitespace \cup {HYPHEN}

\* TextWrapper.wordsep_re with break_on_hyphens=True: a word may be cut after
\* the hyphen at k when two letters (or letter, hyphen, letter) stand before
\* it and a letter, an optional hyphen and a letter after it
HyphenBreakAt(s, k) ==
  /\ k \in 1..Len(s)
  /\ s[k] = HYPHEN
  /\ \/ IsLetter(s, k - 2) /\ IsLetter(s, k - 1)
     \/ IsLetter(s, k - 3) /\ k >= 3 /\ s[k - 2] = HYPHEN /\ IsLetter(s, k - 1)
  /\ IsLetter(s, k + 1)
  /\ \/ IsLetter(s, k + 2)
     \/ k + 2 <= Len(s) /\ s[k + 2] = HYPHEN /\ IsLetter(s, k + 3)

RECURSIVE SplitChunksFrom(_, _, _)
\* TextWrapper._split_chunks: maximal runs of spaces and of non-spaces, the
\* latter cut after the hyphens of compound words
SplitChunksFrom(s, i, cur) ==
  IF i > Len(s) THEN (IF cur = <<>> THEN <<>> ELSE <<cur>>)
  ELSE IF cur # <<>> /\ ( \/ (cur[1] = SP) # (s[i] = SP)
                          \/ HyphenBreakAt(s, i - 1) )
       THEN <<cur>> \o SplitChunksFrom(s, i + 1, <<s[i]>>)
       ELSE SplitChunksFrom(s, i + 1, Append(cur, s[i]))

IsBlank(chunk) == \A k \in 1..Len(chunk) : chunk[k] \in Whitespace

RECURSIVE Concat(_)
Concat(chunks) == IF chunks = <<>> THEN <<>> ELSE Head(chunks) \o Concat(Tail(chunks))

RECURSIVE TakeFitting(_, _, _)
\* how many leading chunks fit on a line that already holds cur_len characters
TakeFitting(chunks, width, cur_len) ==
  IF chunks # <<>> /\ cur_len + Len(Head(chunks)) <= width
  THEN 1 + TakeFitting(Tail(chunks), width, cur_len + Len(Head(chunks)))
  ELSE 0

RECURSIVE WrapChunks(_, _, _)
\* TextWrapper._wrap_chunks with drop_whitespace=True, break_long_words=False
WrapChunks(chunks, width, lines) ==
  IF chunks = <<>> THEN lines
  ELSE
    LET rest0 == IF IsBlank(Head(chunks)) /\ lines # <<>> THEN Tail(chunks) ELSE chunks
        n     == TakeFitting(rest0, width, 0)
        line0 == SubSeq(rest0, 1, n)
        rest1 == SubSeq(rest0, n + 1, Len(rest0))
        \* _handle_long_word: a chunk longer than the width goes on a line
        \* of its own, unbroken
        long  == rest1 # <<>> /\ Len(Head(rest1)) > width /\ line0 = <<>>
        line1 == IF long THEN <<Head(rest1)>> ELSE line0
        rest2 == IF long THEN Tail(rest1) ELSE rest1
        line2 == IF line1 # <<>> /\ IsBlank(line1[Len(line1)])
                 THEN SubSeq(line1, 1, Len(line1) - 1) ELSE line1
    IN  WrapChunks(rest2, width,
                   IF line2 # <<>> THEN Append(lines, Concat(line2)) ELSE lines)

textwrap_wrap(paragraph, width) ==
  WrapChunks(SplitChunksFrom(MungeWhitespace(paragraph), 1, <<>>), width, <<>>)

(***************************************************************************)
(* Normaliser._create_smart_chunks                                         *)
(***************************************************************************)
RECURSIVE SmartChunksLoop(_, _, _, _, _)
\* the for loop over paragraphs, then the flush of the leftovers
SmartChunksLoop(paragraphs, size, chunks, current_chunk, current_length) ==
  IF paragraphs = <<>>
  THEN IF current_chunk # <<>> THEN Append(chunks, Join(current_chunk, SEP))
                               ELSE chunks
  ELSE LET paragraph == Head(paragraphs)
           para_len  == Len(paragraph)
       IN
       IF para_len > size
       THEN SmartChunksLoop(Tail(paragraphs), size,
              (IF current_chunk # <<>>
               THEN Append(chunks, Join(current_chunk, SEP)) ELSE chunks)
                \o textwrap_wrap(paragraph, size),
              <<>>, 0)
       ELSE IF current_length + para_len < size
       THEN SmartChunksLoop(Tail(paragraphs), size, chunks,
              Append(current_chunk, paragraph), current_length + para_len)
       ELSE SmartChunksLoop(Tail(paragraphs), size,
              Append(chunks, Join(current_chunk, SEP)),
              <<paragraph>>, para_len)

_create_smart_chunks(text, size) ==
  SmartChunksLoop(SplitParagraphs(text), size, <<>>, <<>>, 0)

(***************************************************************************)
(* Normaliser.post_process.  resp[k] is what _gemini_api_call does for     *)
(* chunk k: a text it returns, or FAIL when it raises after its last     *)
(* attempt.                                                                *)
(***************************************************************************)
post_process(row_transcription, resp) ==
  LET chunks == _create_smart_chunks(row_transcription, DEFAULT_CHUNK_SIZE)
      normalized_parts ==
        [k \in 1..Len(chunks) |-> IF resp[k] = FAIL THEN chunks[k] ELSE resp[k]]
  IN  Join(normalized_parts, SEP)

(***************************************************************************)
(* Segment file names.  AudioChunker.split has ffmpeg write                *)
(* "{file_name}_%03d.wav"; the names of one split differ only from the     *)
(* ordinal on, so a name is modelled by the code points of its digits and  *)
(* of the "." that follows them.                                           *)
(***************************************************************************)
RECURSIVE Digits(_)
\* the decimal digits of k as code points ("0" is 48)
Digits(k) == IF k < 10 THEN <<48 + k>> ELSE Append(Digits(k \div 10), 48 + (k % 10))

\* "%03d" % k
ZeroPad(k) ==
  LET d == Digits(k) IN
  IF Len(d) >= PAD_WIDTH THEN d ELSE [j \in 1..(PAD_WIDTH - Len(d)) |-> 48] \o d

\* the part of the segment's path that tells it from the other segments
SegmentName(k) == Append(ZeroPad(k), 46)

RECURSIVE StrLess(_, _)
\* Python's < on str: lexicographic by code point, a proper prefix first
StrLess(a, b) ==
  IF b = <<>> THEN FALSE
  ELSE IF a = <<>> THEN TRUE
  ELSE IF Head(a) # Head(b) THEN Head(a) < Head(b)
  ELSE StrLess(Tail(a), Tail(b))

RECURSIVE OrdinalLoop(_, _)
OrdinalLoop(name, acc) ==
  IF name = <<>> \/ Head(name) = 46 THEN acc
  ELSE OrdinalLoop(Tail(name), 10 * acc + (Head(name) - 48))

\* the ordinal ffmpeg gave the segment: its place in time
OrdinalOf(name) == OrdinalLoop(name, 0)

\* sorted(...) on line 76 of media_chunker.py over the files ffmpeg wrote
SplitResult(n) == SortSeq([k \in 1..n |-> SegmentName(k - 1)], StrLess)

(***************************************************************************)
(* The environment of the model.                                           *)
(***************************************************************************)
\* media files a user may drop into the input directory
VisibleNames == {<<"a">>, <<"b">>}
\* a hidden file, always in the input directory
HiddenNames == {<<".", "h">>}
\* data/input/audio, the directory extract_audio writes to
InputSubdirs == {<<"a", "u", "d", "i", "o">>}
\* sizes os.path.getsize may report for a segment
SegmentSizes == {MIN_SEGMENT_BYTES - 1, MIN_SEGMENT_BYTES}
\* the text the transcription capability returns for a segment: "a" for
\* the segments of even ordinal, "bbb" for those of odd ordinal
TranscriptOf(path) == IF OrdinalOf(path) % 2 = 0 THEN <<"a">> ELSE <<"b", "b", "b">>
\* what _gemini_api_call may do for one chunk
LLMOutcomes == {FAIL, <<"x", NL, NL, "y", "y">>}

\* what ffprobe finds in the file
MediaTypeOf(name) == IF name = <<"b">> THEN "VIDEO" ELSE "AUDIO"

VARIABLES
  inputDir,            \* names of the files in data/input/
  archiveDir,          \* names of the files in data/_archives/
  workspaces,          \* the directories data/_temp/<id> that exist
  media,               \* table media_files
  trans,               \* table transcriptions
  chunks,              \* table transcription_chunks, in insertion order
  pc,                  \* where run / process_file stands
  input_files,         \* run: the list computed on lines 256-259
  pos,                 \* run: the place of file_path in input_files
  file_id,             \* process_file: media_record.id
  transcription_id,    \* process_file: transcription_record.id
  audio_chunk_paths,   \* process_file: the sorted segment paths
  i,                   \* process_file: the place of audio_chunk in the list
  chunk_text,          \* process_file: what transcribe returned
  norm_transcription,  \* process_file: what post_process returned
  hist,                \* history: one entry per MediaRecord
  invoked,             \* history: process_file calls per candidate
  cand_id,             \* history: the MediaRecord made for each candidate, or 0
  seglog,              \* history: the segments of this process_file so far
  archive_at_start,    \* history: archiveDir when run() listed the input
  spent                \* history: segment files written and faults injected so far

\* Normaliser.post_process, one call of it followed step by step
VARIABLES
  np_pc,               \* where post_process and its caller stand
  np_input,            \* row_transcription
  np_chunks,           \* chunks
  np_k,                \* the place of chunk in chunks
  np_attempt,          \* _gemini_api_call: attempt
  np_parts,            \* normalized_parts
  np_result,           \* what post_process returned
  np_saved,            \* what process_file stored as the full text
  np_log               \* history: the generation calls and the sleeps

\* the text chunkers and the segment duration, applied to one input
VARIABLES
  ck_text,             \* text
  ck_size,             \* the budget
  ck_smart,            \* what _create_smart_chunks returned
  ck_split,            \* what _text_splitter returned
  ck_done,             \* which of the two has been applied
  seg_mb,              \* chunk_size_mb
  seg_time             \* segment_time, or -1 before it is computed

\* AudioChunker.split, invoked again and again on one output directory
VARIABLES
  sp_pc,               \* where split stands
  sp_input,            \* the input: -1 when the path does not exist, else
                       \* the number of segments ffmpeg cuts it into
  sp_dir_exists,       \* output_dir exists
  sp_dir,              \* the files "{file_name}_NNN.wav" of output_dir: for
                       \* each ordinal the invocation that wrote it, 0 if absent
  sp_call,             \* history: the number of this invocation
  sp_stderr,           \* what ffmpeg wrote on stderr
  sp_at_entry,         \* history: output_dir when split was entered
  sp_log               \* history: how each invocation ended

\* OpanAITranscriber.clean_text applied to one text, and format_diarization
\* followed segment by segment
VARIABLES
  cl_text,             \* text
  cl_out,              \* what clean_text returned, None before
  fm_pc,               \* where format_diarization stands
  fm_segments,         \* segments
  fm_k,                \* the place of segment in segments
  fm_output,           \* output
  fm_current_speaker,  \* current_speaker
  fm_buffer,           \* buffer
  fm_result            \* what format_diarization returned, None before

\* TranscriptionService.save_to_db_existing_transcriptions followed entry by
\* entry
VARIABLES
  bf_exists,           \* dir_path.exists()
  bf_listing,          \* what dir_path.iterdir() yields, in its order
  bf_pc,               \* where the function stands
  bf_pos,              \* the place of file_path in the listing
  bf_entries           \* the text-only entries the repository has created

serviceVars == <<inputDir, archiveDir, workspaces, media, trans, chunks, pc,
                 input_files, pos, file_id, transcription_id, audio_chunk_paths,
                 i, chunk_text, norm_transcription, hist, invoked, cand_id,
                 seglog, archive_at_start, spent>>
normVars == <<np_pc, np_input, np_chunks, np_k, np_attempt, np_parts,
              np_result, np_saved, np_log>>
chunkerVars == <<ck_text, ck_size, ck_smart, ck_split, ck_done>>
segVars == <<seg_mb, seg_time>>
splitVars == <<sp_pc, sp_input, sp_dir_exists, sp_dir, sp_call, sp_stderr,
               sp_at_entry, sp_log>>
cleanVars == <<cl_text, cl_out>>
fmtVars == <<fm_pc, fm_segments, fm_k, fm_output, fm_current_speaker,
             fm_buffer, fm_result>>
backfillVars == <<bf_exists, bf_listing, bf_pc, bf_pos, bf_entries>>
\* what TranscriptionService.run leaves alone
auxVars == <<normVars, chunkerVars, segVars, splitVars, cleanVars, fmtVars,
             backfillVars>>

vars == <<serviceVars, normVars, chunkerVars, segVars, splitVars, cleanVars,
          fmtVars, backfillVars>>

fs == <<inputDir, archiveDir, workspaces>>
db == <<media, trans, chunks>>
runLocals == <<input_files, pos, invoked, cand_id, archive_at_start>>
pfLocals == <<file_id, transcription_id, audio_chunk_paths, i, chunk_text,
              norm_transcription, seglog>>

(***************************************************************************)
(* MediaRepository (app/repositories/media_repository.py): each operation  *)
(* as a function from the table to the table after it.                     *)
(***************************************************************************)
\* a new MediaFile row; status takes the column default, PENDING
repo_create_media_file(tbl, filename, path, media_type) ==
  Append(tbl, [filename |-> filename, file_path |-> path,
               media_type |-> media_type, status |-> "PENDING"])

repo_mark_as_processing(tbl, id) == [tbl EXCEPT ![id].status = "PROCESSING"]

\* the "shell" Transcription row: no text yet
repo_init_transcription(tbl, media_file_id, model) ==
  Append(tbl, [media_file_id |-> media_file_id, full_text |-> None,
               model_used |-> model])

repo_create_chunk(tbl, row) == Append(tbl, row)

ChunksOf(tbl, tid) == SelectSeq(tbl, LAMBDA c : c.transcription_id = tid)

ByIndex(c, d) == c.chunk_index < d.chunk_index

\* the texts of a transcription's chunks, ordered by chunk_index
repo_get_all_chunks_text(tbl, tid) ==
  LET rows == SortSeq(ChunksOf(tbl, tid), ByIndex)
  IN  [k \in 1..Len(rows) |-> rows[k].text_content]

repo_update_transcription_full_text(tbl, tid, text) ==
  [tbl EXCEPT ![tid].full_text = text]

repo_delete_all_chunks(tbl, tid) ==
  SelectSeq(tbl, LAMBDA c : c.transcription_id # tid)

\* bulk insert of the rows of new_chunks_data, in list order
repo_save_chunks(tbl, tid, rows) == tbl \o rows

(***************************************************************************)
(* Initial state: the service is constructed, nothing has run.             *)
(***************************************************************************)
ServiceInit ==
  /\ inputDir = HiddenNames
  /\ archiveDir = {}
  /\ workspaces = {}
  /\ media = <<>>
  /\ trans = <<>>
  /\ chunks = <<>>
  /\ pc = "idle"
  /\ input_files = <<>>
  /\ pos = 0
  /\ file_id = 0
  /\ transcription_id = 0
  /\ audio_chunk_paths = <<>>
  /\ i = 0
  /\ chunk_text = None
  /\ norm_transcription = None
  /\ hist = <<>>
  /\ invoked = <<>>
  /\ cand_id = <<>>
  /\ seglog = <<>>
  /\ archive_at_start = {}
  /\ spent = [segments |-> 0, faults |-> 0]

\* no call of post_process is followed
NormOff ==
  /\ np_pc = "off"
  /\ np_input = None
  /\ np_chunks = <<>>
  /\ np_k = 0
  /\ np_attempt = 0
  /\ np_parts = <<>>
  /\ np_result = None
  /\ np_saved = None
  /\ np_log = <<>>

\* no chunker is applied
ChunkerOff ==
  /\ ck_text = <<>>
  /\ ck_size = 0
  /\ ck_smart = <<>>
  /\ ck_split = <<>>
  /\ ck_done = {}

\* no segment duration is computed
SegOff ==
  /\ seg_mb = 0
  /\ seg_time = -1

\* split is not followed on its own
SplitOff ==
  /\ sp_pc = "off"
  /\ sp_input = -1
  /\ sp_dir_exists = FALSE
  /\ sp_dir = <<>>
  /\ sp_call = 0
  /\ sp_stderr = <<>>
  /\ sp_at_entry = <<>>
  /\ sp_log = <<>>

\* clean_text is not applied on its own
CleanOff ==
  /\ cl_text = <<>>
  /\ cl_out = None

\* save_to_db_existing_transcriptions is not called
BackfillOff ==
  /\ bf_exists = FALSE
  /\ bf_listing = <<>>
  /\ bf_pc = "off"
  /\ bf_pos = 0
  /\ bf_entries = <<>>

\* format_diarization is not followed
FmtOff ==
  /\ fm_pc = "off"
  /\ fm_segments = <<>>
  /\ fm_k = 0
  /\ fm_output = <<>>
  /\ fm_current_speaker = None
  /\ fm_buffer = <<>>
  /\ fm_result = None

Init ==
  /\ ServiceInit /\ NormOff /\ ChunkerOff /\ SegOff /\ SplitOff /\ CleanOff
  /\ FmtOff /\ BackfillOff

\* one more failure of the environment, while the model's budget allows it
Fault ==
  /\ spent.faults < MaxFaults
  /\ spent' = [spent EXCEPT !.faults = @ + 1]

\* the locals of process_file are dead once it has left
ResetLocals ==
  /\ file_id' = 0
  /\ transcription_id' = 0
  /\ audio_chunk_paths' = <<>>
  /\ i' = 0
  /\ chunk_text' = None
  /\ norm_transcription' = None
  /\ seglog' = <<>>

(***************************************************************************)
(* The environment: a user drops a file into the input directory between   *)
(* two runs, or takes the next candidate away while a run is under way.    *)
(***************************************************************************)
EnvPlace(name) ==
  /\ pc = "idle"
  /\ name \notin inputDir
  /\ inputDir' = inputDir \cup {name}
  /\ UNCHANGED <<spent, archiveDir, workspaces, db, pc, runLocals, pfLocals, hist>>
  /\ UNCHANGED auxVars

EnvRemove ==
  /\ pc = "loop"
  /\ pos <= Len(input_files)
  /\ input_files[pos] \in inputDir
  /\ inputDir' = inputDir \ {input_files[pos]}
  /\ Fault
  /\ UNCHANGED <<archiveDir, workspaces, db, pc, runLocals, pfLocals, hist>>
  /\ UNCHANGED auxVars

(***************************************************************************)
(* TranscriptionService.run                                                *)
(***************************************************************************)
\* lines 256-259: the files of input_dir that are not hidden
Candidates ==
  {f \in inputDir \cup InputSubdirs : f \notin InputSubdirs /\ Head(f) # "."}

\* the orders in which iterdir may list a set of names
Listings(S) ==
  {l \in [1..Cardinality(S) -> S] : \A a, b \in DOMAIN l : a # b => l[a] # l[b]}

\* lines 249-261: list the input directory
RunStart(listing) ==
  /\ pc = "idle"
  /\ listing \in Listings(Candidates)
  /\ Len(media) + Len(listing) <= MaxMedia
  /\ spent.segments + Len(listing) <= MaxSegments
  /\ input_files' = listing
  /\ pos' = 1
  /\ invoked' = [k \in 1..Len(listing) |-> 0]
  /\ cand_id' = [k \in 1..Len(listing) |-> 0]
  /\ archive_at_start' = archiveDir
  /\ pc' = "loop"
  /\ UNCHANGED <<spent, fs, db, pfLocals, hist>>
  /\ UNCHANGED auxVars

\* line 263: the list is exhausted, run returns
RunEnd ==
  /\ pc = "loop"
  /\ pos > Len(input_files)
  /\ pc' = "idle"
  /\ input_files' = <<>>
  /\ pos' = 0
  /\ invoked' = <<>>
  /\ cand_id' = <<>>
  /\ archive_at_start' = {}
  /\ UNCHANGED <<spent, fs, db, pfLocals, hist>>
  /\ UNCHANGED auxVars

\* Raise, had the except clause marked the record FAILED
RaiseMarkFailed(step) ==
  /\ Fault
  /\ pc' = "loop"
  /\ pos' = pos + 1
  /\ hist' = [hist EXCEPT ![file_id].outcome = "raised", ![file_id].at = step,
                          ![file_id].fail_seg = IF step = "transcribe" THEN i ELSE 0,
                          ![file_id].kept = Len(ChunksOf(chunks, transcription_id))]
  /\ media' = [media EXCEPT ![file_id].status = "FAILED"]
  /\ ResetLocals
  /\ UNCHANGED <<fs, trans, chunks, input_files, invoked, cand_id,
                 archive_at_start>>

\* Raise, had the try been put around the for loop of run
RaiseAbortsRun(step) ==
  /\ Fault
  /\ pc' = "loop"
  /\ pos' = Len(input_files) + 1
  /\ hist' = [hist EXCEPT ![file_id].outcome = "raised", ![file_id].at = step,
                          ![file_id].fail_seg = IF step = "transcribe" THEN i ELSE 0,
                          ![file_id].kept = Len(ChunksOf(chunks, transcription_id))]
  /\ ResetLocals
  /\ UNCHANGED <<fs, db, input_files, invoked, cand_id, archive_at_start>>

\* Raise, had the archive move been put in a finally clause
RaiseArchives(step) ==
  /\ Fault
  /\ pc' = "loop"
  /\ pos' = pos + 1
  /\ hist' = [hist EXCEPT ![file_id].outcome = "raised", ![file_id].at = step,
                          ![file_id].fail_seg = IF step = "transcribe" THEN i ELSE 0,
                          ![file_id].kept = Len(ChunksOf(chunks, transcription_id)),
                          ![file_id].archived = TRUE]
  /\ inputDir' = inputDir \ {input_files[pos]}
  /\ archiveDir' = archiveDir \cup {input_files[pos]}
  /\ ResetLocals
  /\ UNCHANGED <<workspaces, db, input_files, invoked, cand_id,
                 archive_at_start>>

\* Raise, had the except clause put the record back to PENDING for a retry
RaiseResetsPending(step) ==
  /\ Fault
  /\ pc' = "loop"
  /\ pos' = pos + 1
  /\ hist' = [hist EXCEPT ![file_id].outcome = "raised", ![file_id].at = step,
                          ![file_id].fail_seg = IF step = "transcribe" THEN i ELSE 0,
                          ![file_id].kept = Len(ChunksOf(chunks, transcription_id))]
  /\ media' = [media EXCEPT ![file_id].status = "PENDING"]
  /\ ResetLocals
  /\ UNCHANGED <<fs, trans, chunks, input_files, invoked, cand_id,
                 archive_at_start>>

\* Raise, had _clean_dir been called in a finally clause of process_file
RaiseCleansWorkspace(step) ==
  /\ Fault
  /\ pc' = "loop"
  /\ pos' = pos + 1
  /\ hist' = [hist EXCEPT ![file_id].outcome = "raised", ![file_id].at = step,
                          ![file_id].fail_seg = IF step = "transcribe" THEN i ELSE 0,
                          ![file_id].kept = Len(ChunksOf(chunks, transcription_id))]
  /\ workspaces' = workspaces \ {hist[file_id].job_dir}
  /\ ResetLocals
  /\ UNCHANGED <<inputDir, archiveDir, db, input_files, invoked, cand_id,
                 archive_at_start>>

\* lines 275-276: an exception of process_file reaches the except clause of
\* run, which logs it and goes on with the next file
Raise(step) ==
  /\ Fault
  /\ pc' = "loop"
  /\ pos' = pos + 1
  /\ hist' = [hist EXCEPT ![file_id].outcome = "raised", ![file_id].at = step,
                          ![file_id].fail_seg = IF step = "transcribe" THEN i ELSE 0,
                          ![file_id].kept = Len(ChunksOf(chunks, transcription_id))]
  /\ ResetLocals
  /\ UNCHANGED <<fs, db, input_files, invoked, cand_id, archive_at_start>>

(***************************************************************************)
(* TranscriptionService.process_file                                       *)
(***************************************************************************)
\* lines 265 and 97-98: run calls process_file, which finds the file
PfEnter ==
  /\ pc = "loop"
  /\ pos <= Len(input_files)
  /\ input_files[pos] \in inputDir
  /\ invoked' = [invoked EXCEPT ![pos] = @ + 1]
  /\ pc' = "create_media"
  /\ UNCHANGED <<spent, fs, db, input_files, pos, cand_id, archive_at_start,
                 pfLocals, hist>>
  /\ UNCHANGED auxVars

\* PfNotFound, had the existence check come after create_media_file
PfNotFoundAfterCreate ==
  /\ pc = "loop"
  /\ pos <= Len(input_files)
  /\ input_files[pos] \notin inputDir
  /\ invoked' = [invoked EXCEPT ![pos] = @ + 1]
  /\ media' = repo_create_media_file(media, input_files[pos], input_files[pos],
                                     MediaTypeOf(input_files[pos]))
  /\ hist' = Append(hist, [name |-> input_files[pos], outcome |-> "raised",
                           at |-> "exists", fail_seg |-> 0, kept |-> 0,
                           archived |-> FALSE, move_failed |-> FALSE,
                           norm_calls |-> 0, raw_deleted |-> -1,
                           raw_at_insert |-> -1, job_dir |-> None,
                           norm_input |-> None, norm_output |-> None])
  /\ pos' = pos + 1
  /\ UNCHANGED <<spent, fs, trans, chunks, pc, input_files, cand_id,
                 archive_at_start, pfLocals>>
  /\ UNCHANGED auxVars

\* lines 97-98: the file is gone, FileNotFoundError goes to run
PfNotFound ==
  /\ pc = "loop"
  /\ pos <= Len(input_files)
  /\ input_files[pos] \notin inputDir
  /\ invoked' = [invoked EXCEPT ![pos] = @ + 1]
  /\ pos' = pos + 1
  /\ UNCHANGED <<spent, fs, db, pc, input_files, cand_id, archive_at_start,
                 pfLocals, hist>>
  /\ UNCHANGED auxVars

\* lines 107-116
CreateMedia ==
  /\ pc = "create_media"
  /\ LET f == input_files[pos] IN
     /\ media' = repo_create_media_file(media, f, f, MediaTypeOf(f))
     /\ hist' = Append(hist, [name |-> f, outcome |-> "running", at |-> "none",
                              fail_seg |-> 0, kept |-> 0, archived |-> FALSE,
                              move_failed |-> FALSE, norm_calls |-> 0,
                              raw_deleted |-> -1, raw_at_insert |-> -1,
                              job_dir |-> None, norm_input |-> None,
                              norm_output |-> None])
  /\ file_id' = Len(media) + 1
  /\ cand_id' = [cand_id EXCEPT ![pos] = Len(media) + 1]
  /\ pc' = "mark_processing"
  /\ UNCHANGED <<spent, fs, trans, chunks, input_files, pos, invoked,
                 archive_at_start, transcription_id,
                 audio_chunk_paths, i, chunk_text, norm_transcription, seglog>>
  /\ UNCHANGED auxVars

\* line 117
MarkProcessing ==
  /\ pc = "mark_processing"
  /\ media' = repo_mark_as_processing(media, file_id)
  /\ pc' = "mkdir"
  /\ UNCHANGED <<spent, fs, trans, chunks, runLocals, pfLocals, hist>>
  /\ UNCHANGED auxVars

\* job_dir, had the workspace been named after the file
job_dir_by_stem(id, file_stem) == <<"_temp", file_stem>>

\* line 120: job_dir = _TEMP_FOLDER / str(file_id)
job_dir(id, file_stem) == <<"_temp", id>>

\* lines 120-122
MakeWorkspace ==
  /\ pc = "mkdir"
  /\ workspaces' = workspaces \cup {job_dir(file_id, input_files[pos])}
  /\ hist' = [hist EXCEPT ![file_id].job_dir = job_dir(file_id, input_files[pos])]
  /\ pc' = "extract_audio"
  /\ UNCHANGED <<spent, inputDir, archiveDir, db, runLocals, pfLocals>>
  /\ UNCHANGED auxVars

\* lines 128-133
ExtractAudio ==
  /\ pc = "extract_audio"
  /\ pc' = "split_audio"
  /\ UNCHANGED <<spent, fs, db, runLocals, pfLocals, hist>>
  /\ UNCHANGED auxVars

\* lines 134-136
ExtractAudioFail ==
  /\ pc = "extract_audio"
  /\ Raise("extract")
  /\ UNCHANGED auxVars

\* lines 142-143: n segments come back, and are sorted again
SplitAudio(n) ==
  /\ pc = "split_audio"
  /\ n \in 1..(MaxSegments - spent.segments - (Len(input_files) - pos))
  /\ spent' = [spent EXCEPT !.segments = @ + n]
  /\ audio_chunk_paths' = SortSeq(SplitResult(n), StrLess)
  /\ pc' = "init_transcription"
  /\ UNCHANGED <<fs, db, runLocals, file_id, transcription_id, i, chunk_text,
                 norm_transcription, seglog, hist>>
  /\ UNCHANGED auxVars

\* line 142: split raises
SplitAudioFail ==
  /\ pc = "split_audio"
  /\ Raise("split")
  /\ UNCHANGED auxVars

\* InitTranscription, had the shell been created a second time
InitTranscriptionTwice ==
  /\ pc = "init_transcription"
  /\ trans' = repo_init_transcription(
                repo_init_transcription(trans, file_id, "whisperX"),
                file_id, "whisperX")
  /\ transcription_id' = Len(trans) + 2
  /\ i' = 1
  /\ pc' = "transcribe_loop"
  /\ UNCHANGED <<spent, fs, media, chunks, runLocals, file_id, audio_chunk_paths,
                 chunk_text, norm_transcription, seglog, hist>>
  /\ UNCHANGED auxVars

\* lines 151-155
InitTranscription ==
  /\ pc = "init_transcription"
  /\ trans' = repo_init_transcription(trans, file_id, "whisperX")
  /\ transcription_id' = Len(trans) + 1
  /\ i' = 1
  /\ pc' = "transcribe_loop"
  /\ UNCHANGED <<spent, fs, media, chunks, runLocals, file_id, audio_chunk_paths,
                 chunk_text, norm_transcription, seglog, hist>>
  /\ UNCHANGED auxVars

\* lines 151-155: init_transcription raises
InitTranscriptionFail ==
  /\ pc = "init_transcription"
  /\ Raise("init_transcription")
  /\ UNCHANGED auxVars

\* TooSmall, had the comparison been <=
TooSmallInclusive(size) == size <= MIN_SEGMENT_BYTES

\* line 159: the safety check for tiny files
TooSmall(size) == size < MIN_SEGMENT_BYTES

\* lines 157-160: the segment is too small, continue
SegSkip(size) ==
  /\ pc = "transcribe_loop"
  /\ i <= Len(audio_chunk_paths)
  /\ size \in SegmentSizes
  /\ TooSmall(size)
  /\ seglog' = Append(seglog, [path |-> audio_chunk_paths[i], size |-> size,
                               calls |-> 0, out |-> None])
  /\ i' = i + 1
  /\ UNCHANGED <<spent, fs, db, pc, runLocals, file_id, transcription_id,
                 audio_chunk_paths, chunk_text, norm_transcription, hist>>
  /\ UNCHANGED auxVars

\* lines 157-167: the segment is transcribed
SegTranscribe(size) ==
  /\ pc = "transcribe_loop"
  /\ i <= Len(audio_chunk_paths)
  /\ size \in SegmentSizes
  /\ ~TooSmall(size)
  /\ seglog' = Append(seglog, [path |-> audio_chunk_paths[i], size |-> size,
                               calls |-> 1,
                               out |-> TranscriptOf(audio_chunk_paths[i])])
  /\ chunk_text' = TranscriptOf(audio_chunk_paths[i])
  /\ pc' = "create_chunk"
  /\ UNCHANGED <<spent, fs, db, runLocals, file_id, transcription_id,
                 audio_chunk_paths, i, norm_transcription, hist>>
  /\ UNCHANGED auxVars

\* SegTranscribeFail, had the call been wrapped in a per-segment
\* try/continue
SegTranscribeFailCaught(size) ==
  /\ pc = "transcribe_loop"
  /\ i <= Len(audio_chunk_paths)
  /\ size \in SegmentSizes
  /\ ~TooSmall(size)
  /\ Fault
  /\ hist' = [hist EXCEPT ![file_id].at = "transcribe", ![file_id].fail_seg = i,
                          ![file_id].kept = Len(ChunksOf(chunks, transcription_id))]
  /\ seglog' = Append(seglog, [path |-> audio_chunk_paths[i], size |-> size,
                               calls |-> 1, out |-> None])
  /\ i' = i + 1
  /\ UNCHANGED <<fs, db, pc, runLocals, file_id, transcription_id,
                 audio_chunk_paths, chunk_text, norm_transcription>>
  /\ UNCHANGED auxVars

\* lines 163-167: transcribe raises
SegTranscribeFail(size) ==
  /\ pc = "transcribe_loop"
  /\ i <= Len(audio_chunk_paths)
  /\ size \in SegmentSizes
  /\ ~TooSmall(size)
  /\ Raise("transcribe")
  /\ UNCHANGED auxVars

\* lines 170-175
CreateChunk ==
  /\ pc = "create_chunk"
  /\ chunks' = repo_create_chunk(chunks,
       [transcription_id |-> transcription_id, chunk_index |-> i - 1,
        text_content |-> chunk_text, embedding |-> None,
        gen |-> "raw", path |-> audio_chunk_paths[i]])
  /\ i' = i + 1
  /\ chunk_text' = None
  /\ pc' = "transcribe_loop"
  /\ UNCHANGED <<spent, fs, media, trans, runLocals, file_id, transcription_id,
                 audio_chunk_paths, norm_transcription, seglog, hist>>
  /\ UNCHANGED auxVars

\* lines 170-174: the insert raises
CreateChunkFail ==
  /\ pc = "create_chunk"
  /\ Raise("create_chunk")
  /\ UNCHANGED auxVars

\* Normalise, had the raw chunks been joined by one newline
NormaliseJoinsLines ==
  /\ pc = "transcribe_loop"
  /\ i > Len(audio_chunk_paths)
  /\ LET raw_chunks == repo_get_all_chunks_text(chunks, transcription_id)
         full_raw_text == Join(raw_chunks, <<NL>>)
         n == Len(_create_smart_chunks(full_raw_text, DEFAULT_CHUNK_SIZE))
     IN  \E resp \in [1..n -> LLMOutcomes] :
           /\ norm_transcription' = post_process(full_raw_text, resp)
           /\ hist' = [hist EXCEPT ![file_id].norm_calls = @ + 1,
                                   ![file_id].norm_input = full_raw_text,
                                   ![file_id].norm_output =
                                     post_process(full_raw_text, resp)]
  /\ pc' = "update_full_text"
  /\ UNCHANGED <<spent, fs, db, runLocals, file_id, transcription_id,
                 audio_chunk_paths, i, chunk_text, seglog>>
  /\ UNCHANGED auxVars

\* lines 182-186: merge the raw chunks and normalise
Normalise ==
  /\ pc = "transcribe_loop"
  /\ i > Len(audio_chunk_paths)
  /\ LET raw_chunks == repo_get_all_chunks_text(chunks, transcription_id)
         full_raw_text == Join(raw_chunks, SEP)
         n == Len(_create_smart_chunks(full_raw_text, DEFAULT_CHUNK_SIZE))
     IN  \E resp \in [1..n -> LLMOutcomes] :
           /\ norm_transcription' = post_process(full_raw_text, resp)
           /\ hist' = [hist EXCEPT ![file_id].norm_calls = @ + 1,
                                   ![file_id].norm_input = full_raw_text,
                                   ![file_id].norm_output =
                                     post_process(full_raw_text, resp)]
  /\ pc' = "update_full_text"
  /\ UNCHANGED <<spent, fs, db, runLocals, file_id, transcription_id,
                 audio_chunk_paths, i, chunk_text, seglog>>
  /\ UNCHANGED auxVars

\* lines 182-186: reading the chunks or the normaliser raises
NormaliseFail ==
  /\ pc = "transcribe_loop"
  /\ i > Len(audio_chunk_paths)
  /\ Raise("normalize")
  /\ UNCHANGED auxVars

\* line 189
UpdateFullText ==
  /\ pc = "update_full_text"
  /\ trans' = repo_update_transcription_full_text(trans, transcription_id,
                                                  norm_transcription)
  /\ pc' = "delete_chunks"
  /\ UNCHANGED <<spent, fs, media, chunks, runLocals, pfLocals, hist>>
  /\ UNCHANGED auxVars

UpdateFullTextFail ==
  /\ pc = "update_full_text"
  /\ Raise("update_full_text")
  /\ UNCHANGED auxVars

\* history: the raw chunks a transcription has
RawCount(tbl, tid) ==
  Len(SelectSeq(tbl, LAMBDA c : c.transcription_id = tid /\ c.gen = "raw"))

\* DeleteChunks, had line 197 been left out
DeleteChunksSkipped ==
  /\ pc = "delete_chunks"
  /\ chunks' = chunks
  /\ hist' = [hist EXCEPT ![file_id].raw_deleted = 0]
  /\ pc' = "save_chunks"
  /\ UNCHANGED <<spent, fs, media, trans, runLocals, pfLocals>>
  /\ UNCHANGED auxVars

\* line 197
DeleteChunks ==
  /\ pc = "delete_chunks"
  /\ chunks' = repo_delete_all_chunks(chunks, transcription_id)
  /\ hist' = [hist EXCEPT ![file_id].raw_deleted = RawCount(chunks, transcription_id)]
  /\ pc' = "save_chunks"
  /\ UNCHANGED <<spent, fs, media, trans, runLocals, pfLocals>>
  /\ UNCHANGED auxVars

DeleteChunksFail ==
  /\ pc = "delete_chunks"
  /\ Raise("delete_chunks")
  /\ UNCHANGED auxVars

\* NewChunksData, had enumerate been started at 1
NewChunksDataFromOne(tid, text) ==
  LET new_text_segments == _text_splitter(text, CHUNK_SIZE)
  IN  [k \in 1..Len(new_text_segments) |->
         [transcription_id |-> tid, chunk_index |-> k,
          text_content |-> new_text_segments[k], embedding |-> None,
          gen |-> "clean", path |-> <<>>]]

\* lines 200-209: new_chunks_data
NewChunksData(tid, text) ==
  LET new_text_segments == _text_splitter(text, CHUNK_SIZE)
  IN  [k \in 1..Len(new_text_segments) |->
         [transcription_id |-> tid, chunk_index |-> k - 1,
          text_content |-> new_text_segments[k], embedding |-> None,
          gen |-> "clean", path |-> <<>>]]

\* lines 200-212
SaveChunks ==
  /\ pc = "save_chunks"
  /\ chunks' = repo_save_chunks(chunks, transcription_id,
                                NewChunksData(transcription_id, norm_transcription))
  /\ hist' = [hist EXCEPT ![file_id].raw_at_insert = RawCount(chunks, transcription_id)]
  /\ pc' = "clean_dir"
  /\ UNCHANGED <<spent, fs, media, trans, runLocals, pfLocals>>
  /\ UNCHANGED auxVars

\* SaveChunksFail, had the insert raised with its first row already visible
SaveChunksFailPartial ==
  /\ pc = "save_chunks"
  /\ Fault
  /\ chunks' = repo_save_chunks(chunks, transcription_id,
                 SubSeq(NewChunksData(transcription_id, norm_transcription), 1, 1))
  /\ pc' = "loop"
  /\ pos' = pos + 1
  /\ hist' = [hist EXCEPT ![file_id].outcome = "raised",
                          ![file_id].at = "save_chunks",
                          ![file_id].kept = Len(ChunksOf(chunks, transcription_id))]
  /\ ResetLocals
  /\ UNCHANGED <<fs, media, trans, input_files, invoked, cand_id,
                 archive_at_start>>
  /\ UNCHANGED auxVars

\* lines 200-212: the split or the insert raises

SaveChunksFail ==
  /\ pc = "save_chunks"
  /\ Raise("save_chunks")
  /\ UNCHANGED auxVars

\* lines 219 and 62-65: the workspace is removed, process_file returns
CleanDir ==
  /\ pc = "clean_dir"
  /\ workspaces' = workspaces \ {job_dir(file_id, input_files[pos])}
  /\ hist' = [hist EXCEPT ![file_id].outcome = "returned"]
  /\ pc' = "archive"
  /\ UNCHANGED <<spent, inputDir, archiveDir, db, runLocals, pfLocals>>
  /\ UNCHANGED auxVars

\* CleanDirFail, had _clean_dir let the OSError through
CleanDirFailRaises ==
  /\ pc = "clean_dir"
  /\ Raise("clean_dir")
  /\ UNCHANGED auxVars

\* lines 66-67: rmtree raises OSError, which is logged; process_file returns
CleanDirFail ==
  /\ pc = "clean_dir"
  /\ hist' = [hist EXCEPT ![file_id].outcome = "returned"]
  /\ pc' = "archive"
  /\ Fault
  /\ UNCHANGED <<fs, db, runLocals, pfLocals>>
  /\ UNCHANGED auxVars

\* lines 272-273: the file moves to the archive under its name
Archive ==
  /\ pc = "archive"
  /\ LET f == input_files[pos] IN
     /\ inputDir' = inputDir \ {f}
     /\ archiveDir' = archiveDir \cup {f}
  /\ hist' = [hist EXCEPT ![file_id].archived = TRUE]
  /\ pos' = pos + 1
  /\ pc' = "loop"
  /\ ResetLocals
  /\ UNCHANGED <<spent, workspaces, db, input_files, invoked, cand_id,
                 archive_at_start>>
  /\ UNCHANGED auxVars

\* ArchiveFail, had the move raised with the file already gone from the
\* input directory
ArchiveFailLosesFile ==
  /\ pc = "archive"
  /\ hist' = [hist EXCEPT ![file_id].move_failed = TRUE]
  /\ inputDir' = inputDir \ {input_files[pos]}
  /\ pos' = pos + 1
  /\ pc' = "loop"
  /\ ResetLocals
  /\ Fault
  /\ UNCHANGED <<archiveDir, workspaces, db, input_files, invoked, cand_id,
                 archive_at_start>>
  /\ UNCHANGED auxVars

\* lines 272 and 275-276: shutil.move raises, which is logged
ArchiveFail ==
  /\ pc = "archive"
  /\ hist' = [hist EXCEPT ![file_id].move_failed = TRUE]
  /\ pos' = pos + 1
  /\ pc' = "loop"
  /\ ResetLocals
  /\ Fault
  /\ UNCHANGED <<fs, db, input_files, invoked, cand_id, archive_at_start>>
  /\ UNCHANGED auxVars

Next ==
  \/ \E name \in VisibleNames : EnvPlace(name)
  \/ EnvRemove
  \/ \E listing \in Listings(Candidates) : RunStart(listing)
  \/ RunEnd
  \/ PfEnter
  \/ PfNotFound
  \/ CreateMedia
  \/ MarkProcessing
  \/ MakeWorkspace
  \/ ExtractAudio
  \/ ExtractAudioFail
  \/ \E n \in 1..MaxSegments : SplitAudio(n)
  \/ SplitAudioFail
  \/ InitTranscription
  \/ InitTranscriptionFail
  \/ \E size \in SegmentSizes : SegSkip(size)
  \/ \E size \in SegmentSizes : SegTranscribe(size)
  \/ \E size \in SegmentSizes : SegTranscribeFail(size)
  \/ CreateChunk
  \/ CreateChunkFail
  \/ Normalise
  \/ NormaliseFail
  \/ UpdateFullText
  \/ UpdateFullTextFail
  \/ DeleteChunks
  \/ DeleteChunksFail
  \/ SaveChunks
  \/ SaveChunksFail
  \/ CleanDir
  \/ CleanDirFail
  \/ Archive
  \/ ArchiveFail

Spec == Init /\ [][Next]_vars

(***************************************************************************)
(* A long recording: one file that ffmpeg cuts into LongSegments segments, *)
(* each of full size, processed without a failure up to the end of the     *)
(* transcribe loop.                                                        *)
(***************************************************************************)
LongName == <<"a">>

\* lines 142-143 for the long recording
LongSplitAudio ==
  /\ pc = "split_audio"
  /\ audio_chunk_paths' = SortSeq(SplitResult(LongSegments), StrLess)
  /\ pc' = "init_transcription"
  /\ UNCHANGED <<spent, fs, db, runLocals, file_id, transcription_id, i,
                 chunk_text, norm_transcription, seglog, hist>>
  /\ UNCHANGED auxVars

NextLong ==
  \/ EnvPlace(LongName)
  \/ RunStart(<<LongName>>)
  \/ PfEnter
  \/ CreateMedia
  \/ MarkProcessing
  \/ MakeWorkspace
  \/ ExtractAudio
  \/ LongSplitAudio
  \/ InitTranscription
  \/ SegTranscribe(MIN_SEGMENT_BYTES)
  \/ CreateChunk

SpecLong == Init /\ [][NextLong]_vars

(***************************************************************************)
(* Normaliser.post_process followed call by call: process_file hands it a  *)
(* text (line 186 of services.py), every chunk goes through the retry loop *)
(* of _gemini_api_call, and process_file stores what comes back (line      *)
(* 189).                                                                   *)
(***************************************************************************)
\* what generate_content may do on one attempt
FailureKinds == {"no_candidates", "empty_content", "transport_error"}

\* the text the model returns for a chunk: the chunk in capitals
Clean(chunk) ==
  [j \in 1..Len(chunk) |-> IF chunk[j] = "a" THEN "A"
                           ELSE IF chunk[j] = "b" THEN "B" ELSE chunk[j]]

\* texts process_file may hand over: nothing transcribed, one chunk, a
\* paragraph to be wrapped, three chunks; and None
NormInputs ==
  {None, <<>>,
   <<"a", NL, NL, "b">>,
   <<"a", "a", "a", "a", SP, "b">>,
   <<"a", "a", "a", NL, NL, "b", "b", "b", NL, NL, "a", "b", "a">>}

RECURSIVE Pow(_, _)
Pow(b, e) == IF e = 0 THEN 1 ELSE b * Pow(b, e - 1)

CallEvent(k, attempt, kind) ==
  [ev |-> "call", k |-> k, attempt |-> attempt, kind |-> kind, delay |-> 0]
SleepEvent(k, attempt, delay) ==
  [ev |-> "sleep", k |-> k, attempt |-> attempt, kind |-> "none", delay |-> delay]

InitNorm ==
  /\ ServiceInit /\ ChunkerOff /\ SegOff /\ SplitOff /\ CleanOff /\ FmtOff /\ BackfillOff
  /\ np_pc = "called"
  /\ np_input \in NormInputs
  /\ np_chunks = <<>>
  /\ np_k = 0
  /\ np_attempt = 0
  /\ np_parts = <<>>
  /\ np_result = None
  /\ np_saved = None
  /\ np_log = <<>>

\* lines 175-176: None is refused
PpReject ==
  /\ np_pc = "called"
  /\ np_input = None
  /\ np_pc' = "raised"
  /\ UNCHANGED <<np_input, np_chunks, np_k, np_attempt, np_parts, np_result,
                 np_saved, np_log>>
  /\ UNCHANGED <<serviceVars, chunkerVars, segVars, splitVars, cleanVars, fmtVars, backfillVars>>

\* lines 181-188: the text is cut into chunks and the loop begins
PpSplit ==
  /\ np_pc = "called"
  /\ np_input # None
  /\ np_chunks' = _create_smart_chunks(np_input, DEFAULT_CHUNK_SIZE)
  /\ np_k' = 1
  /\ np_attempt' = 1
  /\ np_pc' = "attempt"
  /\ UNCHANGED <<np_input, np_parts, np_result, np_saved, np_log>>
  /\ UNCHANGED <<serviceVars, chunkerVars, segVars, splitVars, cleanVars, fmtVars, backfillVars>>

\* lines 71-85 and 192-193: the attempt succeeds, its text is the part
ApiReturn ==
  /\ np_pc = "attempt"
  /\ np_k <= Len(np_chunks)
  /\ np_log' = Append(np_log, CallEvent(np_k, np_attempt, "ok"))
  /\ np_parts' = Append(np_parts, Clean(np_chunks[np_k]))
  /\ np_k' = np_k + 1
  /\ np_attempt' = 1
  /\ UNCHANGED <<np_pc, np_input, np_chunks, np_result, np_saved>>
  /\ UNCHANGED <<serviceVars, chunkerVars, segVars, splitVars, cleanVars, fmtVars, backfillVars>>

\* ApiFailRetry, had the loop no last attempt
ApiFailRetryNoLimit(kind) ==
  /\ np_pc = "attempt"
  /\ np_k <= Len(np_chunks)
  /\ kind \in FailureKinds
  /\ np_log' = np_log \o <<CallEvent(np_k, np_attempt, kind),
                           SleepEvent(np_k, np_attempt,
                                      Pow(BACKOFF_FACTOR, np_attempt - 1))>>
  /\ np_attempt' = np_attempt + 1
  /\ UNCHANGED <<np_pc, np_input, np_chunks, np_k, np_parts, np_result, np_saved>>
  /\ UNCHANGED <<serviceVars, chunkerVars, segVars, splitVars, cleanVars, fmtVars, backfillVars>>

\* ApiFailRetry, had the exponent been attempt
ApiFailRetryLongSleep(kind) ==
  /\ np_pc = "attempt"
  /\ np_k <= Len(np_chunks)
  /\ kind \in FailureKinds
  /\ np_attempt < MAX_RETRIES
  /\ np_log' = np_log \o <<CallEvent(np_k, np_attempt, kind),
                           SleepEvent(np_k, np_attempt,
                                      Pow(BACKOFF_FACTOR, np_attempt))>>
  /\ np_attempt' = np_attempt + 1
  /\ UNCHANGED <<np_pc, np_input, np_chunks, np_k, np_parts, np_result, np_saved>>
  /\ UNCHANGED <<serviceVars, chunkerVars, segVars, splitVars, cleanVars, fmtVars, backfillVars>>

\* ApiFailRetry, had line 82 been left out: an empty candidate is taken as
\* the text
ApiFailRetryEmptyAccepted(kind) ==
  /\ np_pc = "attempt"
  /\ np_k <= Len(np_chunks)
  /\ kind \in FailureKinds
  /\ np_attempt < MAX_RETRIES
  /\ IF kind = "empty_content"
     THEN /\ np_log' = Append(np_log, CallEvent(np_k, np_attempt, kind))
          /\ np_parts' = Append(np_parts, <<>>)
          /\ np_k' = np_k + 1
          /\ np_attempt' = 1
     ELSE /\ np_log' = np_log \o <<CallEvent(np_k, np_attempt, kind),
                                   SleepEvent(np_k, np_attempt,
                                              Pow(BACKOFF_FACTOR, np_attempt - 1))>>
          /\ np_attempt' = np_attempt + 1
          /\ UNCHANGED <<np_k, np_parts>>
  /\ UNCHANGED <<np_pc, np_input, np_chunks, np_result, np_saved>>
  /\ UNCHANGED <<serviceVars, chunkerVars, segVars, splitVars, cleanVars, fmtVars, backfillVars>>

\* lines 78-83 and 87-92: the attempt fails and is not the last; sleep, then
\* the next attempt
ApiFailRetry(kind) ==
  /\ np_pc = "attempt"
  /\ np_k <= Len(np_chunks)
  /\ kind \in FailureKinds
  /\ np_attempt < MAX_RETRIES
  /\ np_log' = np_log \o <<CallEvent(np_k, np_attempt, kind),
                           SleepEvent(np_k, np_attempt,
                                      Pow(BACKOFF_FACTOR, np_attempt - 1))>>
  /\ np_attempt' = np_attempt + 1
  /\ UNCHANGED <<np_pc, np_input, np_chunks, np_k, np_parts, np_result, np_saved>>
  /\ UNCHANGED <<serviceVars, chunkerVars, segVars, splitVars, cleanVars, fmtVars, backfillVars>>

\* ApiFailLast, had post_process no except clause
ApiFailLastRaises(kind) ==
  /\ np_pc = "attempt"
  /\ np_k <= Len(np_chunks)
  /\ kind \in FailureKinds
  /\ np_attempt = MAX_RETRIES
  /\ np_log' = Append(np_log, CallEvent(np_k, np_attempt, kind))
  /\ np_pc' = "raised"
  /\ UNCHANGED <<np_input, np_chunks, np_k, np_attempt, np_parts, np_result,
                 np_saved>>
  /\ UNCHANGED <<serviceVars, chunkerVars, segVars, splitVars, cleanVars, fmtVars, backfillVars>>

\* ApiFailLast, had line 197 been left out
ApiFailLastDrops(kind) ==
  /\ np_pc = "attempt"
  /\ np_k <= Len(np_chunks)
  /\ kind \in FailureKinds
  /\ np_attempt = MAX_RETRIES
  /\ np_log' = Append(np_log, CallEvent(np_k, np_attempt, kind))
  /\ np_k' = np_k + 1
  /\ np_attempt' = 1
  /\ UNCHANGED <<np_pc, np_input, np_chunks, np_parts, np_result, np_saved>>
  /\ UNCHANGED <<serviceVars, chunkerVars, segVars, splitVars, cleanVars, fmtVars, backfillVars>>

\* lines 89-90 and 194-197: the last attempt fails, _gemini_api_call raises
\* and post_process takes the chunk as it is
ApiFailLast(kind) ==
  /\ np_pc = "attempt"
  /\ np_k <= Len(np_chunks)
  /\ kind \in FailureKinds
  /\ np_attempt = MAX_RETRIES
  /\ np_log' = Append(np_log, CallEvent(np_k, np_attempt, kind))
  /\ np_parts' = Append(np_parts, np_chunks[np_k])
  /\ np_k' = np_k + 1
  /\ np_attempt' = 1
  /\ UNCHANGED <<np_pc, np_input, np_chunks, np_result, np_saved>>
  /\ UNCHANGED <<serviceVars, chunkerVars, segVars, splitVars, cleanVars, fmtVars, backfillVars>>

\* line 200: the parts are joined and returned
PpReturn ==
  /\ np_pc = "attempt"
  /\ np_k > Len(np_chunks)
  /\ np_result' = Join(np_parts, SEP)
  /\ np_pc' = "returned"
  /\ UNCHANGED <<np_input, np_chunks, np_k, np_attempt, np_parts, np_saved, np_log>>
  /\ UNCHANGED <<serviceVars, chunkerVars, segVars, splitVars, cleanVars, fmtVars, backfillVars>>

\* services.py, lines 186-189: the returned text becomes the full text
PfPersist ==
  /\ np_pc = "returned"
  /\ np_saved' = np_result
  /\ np_pc' = "persisted"
  /\ UNCHANGED <<np_input, np_chunks, np_k, np_attempt, np_parts, np_result, np_log>>
  /\ UNCHANGED <<serviceVars, chunkerVars, segVars, splitVars, cleanVars, fmtVars, backfillVars>>

NextNorm ==
  \/ PpReject
  \/ PpSplit
  \/ ApiReturn
  \/ \E kind \in FailureKinds : ApiFailRetry(kind)
  \/ \E kind \in FailureKinds : ApiFailLast(kind)
  \/ PpReturn
  \/ PfPersist

SpecNorm == InitNorm /\ [][NextNorm]_vars

(***************************************************************************)
(* The two text chunkers applied to one text and one budget.               *)
(***************************************************************************)
\* a letter, a blank and a newline: enough for paragraphs, empty
\* paragraphs and words
Alphabet == {"a", SP, NL}

\* the texts with compound words: every hyphen stands between two letters
\* on each side
HyphenTexts ==
  {t \in UNION {[1..n -> Alphabet \cup {HYPHEN}] : n \in 0..MaxTextLen} :
     /\ \E k \in 1..Len(t) : t[k] = HYPHEN
     /\ \A k \in 1..Len(t) : t[k] = HYPHEN =>
          /\ IsLetter(t, k - 2) /\ IsLetter(t, k - 1)
          /\ IsLetter(t, k + 1) /\ IsLetter(t, k + 2)}

ChunkerTexts == UNION {[1..n -> Alphabet] : n \in 0..MaxTextLen} \cup HyphenTexts

ChunkerSizes == 1..MaxBudget

InitChunker ==
  /\ ServiceInit /\ NormOff /\ SegOff /\ SplitOff /\ CleanOff /\ FmtOff /\ BackfillOff
  /\ ck_text \in ChunkerTexts
  /\ ck_size \in ChunkerSizes
  /\ ck_smart = <<>>
  /\ ck_split = <<>>
  /\ ck_done = {}

\* output_normaliser.py, lines 119-161, with the budget as DEFAULT_CHUNK_SIZE
ApplySmartChunks ==
  /\ "smart" \notin ck_done
  /\ ck_smart' = _create_smart_chunks(ck_text, ck_size)
  /\ ck_done' = ck_done \cup {"smart"}
  /\ UNCHANGED <<ck_text, ck_size, ck_split>>
  /\ UNCHANGED <<serviceVars, normVars, segVars, splitVars, cleanVars, fmtVars, backfillVars>>

\* services.py, lines 69-87
ApplyTextSplitter ==
  /\ "split" \notin ck_done
  /\ ck_split' = _text_splitter(ck_text, ck_size)
  /\ ck_done' = ck_done \cup {"split"}
  /\ UNCHANGED <<ck_text, ck_size, ck_smart>>
  /\ UNCHANGED <<serviceVars, normVars, segVars, splitVars, cleanVars, fmtVars, backfillVars>>

NextChunker ==
  \/ ApplySmartChunks
  \/ ApplyTextSplitter

SpecChunker == InitChunker /\ [][NextChunker]_vars

(***************************************************************************)
(* AudioChunker.split, step 2: the duration of a segment.                  *)
(***************************************************************************)
\* line 54
target_bytes(chunk_size_mb) == chunk_size_mb * 1024 * 1024

\* segment_time, had the margin been left out
segment_time_no_margin(chunk_size_mb) ==
  target_bytes(chunk_size_mb) \div BYTES_PER_SEC

\* line 56: math.floor((target_bytes / bytes_per_sec) * 0.95), with 0.95
\* taken as 19/20
segment_time(chunk_size_mb) ==
  (target_bytes(chunk_size_mb) * 19) \div (BYTES_PER_SEC * 20)

InitSeg ==
  /\ ServiceInit /\ NormOff /\ ChunkerOff /\ SplitOff /\ CleanOff /\ FmtOff /\ BackfillOff
  /\ seg_mb \in 0..MaxBudgetMB
  /\ seg_time = -1

\* lines 53-56
ComputeSegmentTime ==
  /\ seg_time = -1
  /\ seg_time' = segment_time(seg_mb)
  /\ UNCHANGED seg_mb
  /\ UNCHANGED <<serviceVars, normVars, chunkerVars, splitVars, cleanVars, fmtVars, backfillVars>>

NextSeg == ComputeSegmentTime

SpecSeg == InitSeg /\ [][NextSeg]_vars


(***************************************************************************)
(* AudioChunker.split followed step by step, invoked up to MaxCalls times  *)
(* with the same input name and the same output directory.  Between two    *)
(* invocations the input file may be replaced by another recording or      *)
(* taken away.                                                             *)
(***************************************************************************)
\* what ffmpeg may write on stderr: nothing, or a diagnostic
Stderrs == {<<>>, <<"e">>}

Ordinals == 0..(MaxOrdinals - 1)

\* glob("{file_name}_*.wav") over output_dir: the ordinals of the files found
Globbed(dir) == {k \in DOMAIN dir : dir[k] # 0}

\* lines 76-78: the paths found, sorted as strings
SortedPaths(dir) ==
  LET found == Globbed(dir)
      ks == CHOOSE l \in [1..Cardinality(found) -> found] :
              \A a, b \in DOMAIN l : a < b => l[a] < l[b]
  IN  SortSeq([j \in DOMAIN ks |-> SegmentName(ks[j])], StrLess)

\* how an invocation ended
SplitEnded(outcome, text, detail, exit, stderr, produced, ret) ==
  [call |-> sp_call, input |-> sp_input, outcome |-> outcome, text |-> text,
   detail |-> detail, exit |-> exit, stderr |-> stderr, produced |-> produced,
   ret |-> ret]

InitSplit ==
  /\ ServiceInit /\ NormOff /\ ChunkerOff /\ SegOff /\ CleanOff /\ FmtOff /\ BackfillOff
  /\ sp_pc = "idle"
  /\ sp_input \in -1..MaxOrdinals
  /\ sp_dir_exists = FALSE
  /\ sp_dir = [k \in Ordinals |-> 0]
  /\ sp_call = 0
  /\ sp_stderr = <<>>
  /\ sp_at_entry = <<FALSE, [k \in Ordinals |-> 0]>>
  /\ sp_log = <<>>

\* between two invocations the input is replaced or removed
EnvInput(n) ==
  /\ sp_pc = "idle"
  /\ n \in -1..MaxOrdinals
  /\ n # sp_input
  /\ sp_input' = n
  /\ UNCHANGED <<sp_pc, sp_dir_exists, sp_dir, sp_call, sp_stderr, sp_at_entry,
                 sp_log>>
  /\ UNCHANGED <<serviceVars, normVars, chunkerVars, segVars, cleanVars, fmtVars, backfillVars>>

\* lines 32-33: the input path does not exist
SplitNotFound ==
  /\ sp_pc = "idle"
  /\ sp_call < MaxCalls
  /\ sp_input = -1
  /\ sp_call' = sp_call + 1
  /\ sp_at_entry' = <<sp_dir_exists, sp_dir>>
  /\ sp_log' = Append(sp_log,
       [SplitEnded("FileNotFoundError", "Input file not found", <<>>, "none",
                   <<>>, 0, None) EXCEPT !.call = sp_call + 1])
  /\ UNCHANGED <<sp_pc, sp_input, sp_dir_exists, sp_dir, sp_stderr>>
  /\ UNCHANGED <<serviceVars, normVars, chunkerVars, segVars, cleanVars, fmtVars, backfillVars>>

\* lines 32-42: the input exists, the output directory is made
SplitEnter ==
  /\ sp_pc = "idle"
  /\ sp_call < MaxCalls
  /\ sp_input >= 0
  /\ sp_call' = sp_call + 1
  /\ sp_at_entry' = <<sp_dir_exists, sp_dir>>
  /\ sp_dir_exists' = TRUE
  /\ sp_pc' = "clear"
  /\ UNCHANGED <<sp_input, sp_dir, sp_stderr, sp_log>>
  /\ UNCHANGED <<serviceVars, normVars, chunkerVars, segVars, cleanVars, fmtVars, backfillVars>>

\* lines 45-50: the old files are removed; os.remove raised OSError for the
\* files of kept, which the except clause passes over
ClearOld(kept) ==
  /\ sp_pc = "clear"
  /\ kept \in SUBSET Globbed(sp_dir)
  /\ sp_dir' = [k \in Ordinals |-> IF k \in kept THEN sp_dir[k] ELSE 0]
  /\ sp_pc' = "ffmpeg"
  /\ UNCHANGED <<sp_input, sp_dir_exists, sp_call, sp_stderr, sp_at_entry, sp_log>>
  /\ UNCHANGED <<serviceVars, normVars, chunkerVars, segVars, cleanVars, fmtVars, backfillVars>>

\* line 74: ffmpeg exits with status 0, having written (over any file of the
\* same name, "-y") the segments of the input
Ffmpeg(err) ==
  /\ sp_pc = "ffmpeg"
  /\ err \in Stderrs
  /\ sp_dir' = [k \in Ordinals |-> IF k < sp_input THEN sp_call ELSE sp_dir[k]]
  /\ sp_stderr' = err
  /\ sp_pc' = "collect"
  /\ UNCHANGED <<sp_input, sp_dir_exists, sp_call, sp_at_entry, sp_log>>
  /\ UNCHANGED <<serviceVars, normVars, chunkerVars, segVars, cleanVars, fmtVars, backfillVars>>

\* lines 74 and 84-86: ffmpeg exits with another status after m segments;
\* CalledProcessError becomes a RuntimeError with what it wrote on stderr
FfmpegFail(m, err) ==
  /\ sp_pc = "ffmpeg"
  /\ err \in Stderrs
  /\ m \in 0..sp_input
  /\ sp_dir' = [k \in Ordinals |-> IF k < m THEN sp_call ELSE sp_dir[k]]
  /\ sp_log' = Append(sp_log,
       SplitEnded("RuntimeError", "Chunking failed: ",
                  IF err # <<>> THEN err ELSE <<"Unknown error">>,
                  "nonzero", err, m, None))
  /\ sp_stderr' = <<>>
  /\ sp_pc' = "idle"
  /\ UNCHANGED <<sp_input, sp_dir_exists, sp_call, sp_at_entry>>
  /\ UNCHANGED <<serviceVars, normVars, chunkerVars, segVars, cleanVars, fmtVars, backfillVars>>

\* lines 75-82: the files of the pattern are listed and sorted
Collect ==
  /\ sp_pc = "collect"
  /\ LET found == SortedPaths(sp_dir) IN
       sp_log' = Append(sp_log,
         IF found = <<>>
           THEN SplitEnded("RuntimeError", "FFmpeg ran but produced no chunks.",
                           <<>>, "zero", sp_stderr, sp_input, None)
           ELSE SplitEnded("returned", "", <<>>, "zero", sp_stderr, sp_input, found))
  /\ sp_stderr' = <<>>
  /\ sp_pc' = "idle"
  /\ UNCHANGED <<sp_input, sp_dir_exists, sp_dir, sp_call, sp_at_entry>>
  /\ UNCHANGED <<serviceVars, normVars, chunkerVars, segVars, cleanVars, fmtVars, backfillVars>>

NextSplit ==
  \/ \E n \in -1..MaxOrdinals : EnvInput(n)
  \/ SplitNotFound
  \/ SplitEnter
  \/ \E kept \in SUBSET Ordinals : ClearOld(kept)
  \/ \E err \in Stderrs : Ffmpeg(err)
  \/ \E m \in 0..MaxOrdinals, err \in Stderrs : FfmpegFail(m, err)
  \/ Collect

SpecSplit == InitSplit /\ [][NextSplit]_vars


(***************************************************************************)
(* OpanAITranscriber.clean_text.  A text is a sequence of characters; the  *)
(* regular expressions of the code are followed character by character.    *)
(***************************************************************************)
\* line 20-22: self.FILLERS, each pattern without its two \b
FILLERS == << <<"u", "h">>, <<"u", "m">>, <<"a", "h">>, <<"s", "o">>,
             <<"y", "o", "u", SP, "k", "n", "o", "w">> >>

\* the characters \w matches, among those of the model's texts
WordChars == {"u", "h", "m", "a", "s", "o", "y", "k", "n", "w", "x", "U"}

\* re.IGNORECASE: the character compared without its case
Lower(c) == IF c = "U" THEN "u" ELSE c

\* the pattern \b<filler>\b matches text at place p
MatchesAt(filler, text, p) ==
  /\ p + Len(filler) - 1 <= Len(text)
  /\ \A j \in 1..Len(filler) : Lower(text[p + j - 1]) = filler[j]
  /\ p = 1 \/ text[p - 1] \notin WordChars
  /\ p + Len(filler) > Len(text) \/ text[p + Len(filler)] \notin WordChars

RECURSIVE SubFillerFrom(_, _, _, _)
SubFillerFrom(filler, text, p, acc) ==
  IF p > Len(text) THEN acc
  ELSE IF MatchesAt(filler, text, p)
    THEN SubFillerFrom(filler, text, p + Len(filler), acc)
    ELSE SubFillerFrom(filler, text, p + 1, Append(acc, text[p]))

\* line 36: re.sub(filler, "", text, flags=re.IGNORECASE)
SubFiller(filler, text) == SubFillerFrom(filler, text, 1, <<>>)

RECURSIVE SubFillers(_, _)
\* lines 35-36: the fillers are removed one after the other
SubFillers(fillers, text) ==
  IF fillers = <<>> THEN text
  ELSE SubFillers(Tail(fillers), SubFiller(Head(fillers), text))

RECURSIVE CollapseFrom(_, _, _)
CollapseFrom(text, p, acc) ==
  IF p > Len(text) THEN acc
  ELSE IF text[p] \in Whitespace
    THEN CollapseFrom(text, p + 1,
           IF p > 1 /\ text[p - 1] \in Whitespace THEN acc ELSE Append(acc, SP))
    ELSE CollapseFrom(text, p + 1, Append(acc, text[p]))

\* line 37: re.sub(r"\s+", " ", text)
CollapseWhitespace(text) == CollapseFrom(text, 1, <<>>)

\* lines 34-39
clean_text(text) == Strip(CollapseWhitespace(SubFillers(FILLERS, Strip(text))))

\* what a segment text is made of: fillers, other words, blanks and marks
Pieces == { <<"u", "h">>, <<"U", "m">>, <<"s", "o">>, <<"y", "o", "u">>,
            <<"k", "n", "o", "w">>, <<"x">>, <<SP>>, <<NL>>, <<"-">> }

\* the texts made of up to max pieces
CleanTexts(max) ==
  {Join(ps, <<>>) : ps \in UNION {[1..n -> Pieces] : n \in 0..max}}

InitClean ==
  /\ ServiceInit /\ NormOff /\ ChunkerOff /\ SegOff /\ SplitOff /\ FmtOff /\ BackfillOff
  /\ cl_text \in CleanTexts(MaxPieces)
  /\ cl_out = None

\* lines 24-39
ApplyCleanText ==
  /\ cl_out = None
  /\ cl_out' = clean_text(cl_text)
  /\ UNCHANGED cl_text
  /\ UNCHANGED <<serviceVars, normVars, chunkerVars, segVars, splitVars, fmtVars, backfillVars>>

NextClean == ApplyCleanText

SpecClean == InitClean /\ [][NextClean]_vars

(***************************************************************************)
(* OpanAITranscriber.format_diarization, one iteration of its loop at a    *)
(* time.                                                                   *)
(***************************************************************************)
\* the speaker labels of the segments; a segment may carry no label
FmtSpeakers == {<<"A">>, <<"B">>, None}

\* the texts of the segments: two that clean to nothing, two that do not
FmtTexts == { <<"u", "h">>, <<>>, <<"u", "h", SP, "x">>, <<"y">> }

\* the lists of up to max segments
FmtSegments(max) ==
  UNION {[1..n -> [speaker : FmtSpeakers, text : FmtTexts]] : n \in 0..max}

\* lines 69 and 78: f"{current_speaker}:\n" + " ".join(buffer)
Paragraph(speaker, buffer) == speaker \o <<":", NL>> \o Join(buffer, <<SP>>)

InitFmt ==
  /\ ServiceInit /\ NormOff /\ ChunkerOff /\ SegOff /\ SplitOff /\ CleanOff
  /\ BackfillOff
  /\ fm_pc = "loop"
  /\ fm_segments \in FmtSegments(MaxFmtSegments)
  /\ fm_k = 1
  /\ fm_output = <<>>
  /\ fm_current_speaker = None
  /\ fm_buffer = <<>>
  /\ fm_result = None

\* FmtSkip, had the empty segment been taken as the end of its speaker's run
FmtSkipBreaksRun ==
  /\ fm_pc = "loop"
  /\ fm_k <= Len(fm_segments)
  /\ clean_text(fm_segments[fm_k].text) = <<>>
  /\ fm_output' = IF fm_buffer # <<>>
                    THEN Append(fm_output,
                           Paragraph(fm_current_speaker, fm_buffer) \o <<NL>>)
                    ELSE fm_output
  /\ fm_buffer' = <<>>
  /\ fm_current_speaker' = None
  /\ fm_k' = fm_k + 1
  /\ UNCHANGED <<fm_pc, fm_segments, fm_result>>
  /\ UNCHANGED <<serviceVars, normVars, chunkerVars, segVars, splitVars, cleanVars, backfillVars>>

\* lines 57-64: the segment cleans to nothing
FmtSkip ==
  /\ fm_pc = "loop"
  /\ fm_k <= Len(fm_segments)
  /\ clean_text(fm_segments[fm_k].text) = <<>>
  /\ fm_k' = fm_k + 1
  /\ UNCHANGED <<fm_pc, fm_segments, fm_output, fm_current_speaker, fm_buffer,
                 fm_result>>
  /\ UNCHANGED <<serviceVars, normVars, chunkerVars, segVars, splitVars, cleanVars, backfillVars>>

\* lines 57-71: the speaker changes, the buffer is flushed
FmtNewSpeaker ==
  /\ fm_pc = "loop"
  /\ fm_k <= Len(fm_segments)
  /\ LET cleaned_text == clean_text(fm_segments[fm_k].text)
         speaker == fm_segments[fm_k].speaker
     IN  /\ cleaned_text # <<>>
         /\ speaker # fm_current_speaker
         /\ fm_output' = IF fm_buffer # <<>>
                           THEN Append(fm_output,
                                  Paragraph(fm_current_speaker, fm_buffer) \o <<NL>>)
                           ELSE fm_output
         /\ fm_current_speaker' = speaker
         /\ fm_buffer' = <<cleaned_text>>
  /\ fm_k' = fm_k + 1
  /\ UNCHANGED <<fm_pc, fm_segments, fm_result>>
  /\ UNCHANGED <<serviceVars, normVars, chunkerVars, segVars, splitVars, cleanVars, backfillVars>>

\* lines 57-74: the same speaker goes on
FmtSameSpeaker ==
  /\ fm_pc = "loop"
  /\ fm_k <= Len(fm_segments)
  /\ LET cleaned_text == clean_text(fm_segments[fm_k].text)
         speaker == fm_segments[fm_k].speaker
     IN  /\ cleaned_text # <<>>
         /\ speaker = fm_current_speaker
         /\ fm_buffer' = Append(fm_buffer, cleaned_text)
  /\ fm_k' = fm_k + 1
  /\ UNCHANGED <<fm_pc, fm_segments, fm_output, fm_current_speaker, fm_result>>
  /\ UNCHANGED <<serviceVars, normVars, chunkerVars, segVars, splitVars, cleanVars, backfillVars>>

\* lines 77-80: the last buffer is flushed and the paragraphs are joined
FmtReturn ==
  /\ fm_pc = "loop"
  /\ fm_k > Len(fm_segments)
  /\ LET output == IF fm_buffer # <<>>
                     THEN Append(fm_output, Paragraph(fm_current_speaker, fm_buffer))
                     ELSE fm_output
     IN  /\ fm_output' = output
         /\ fm_result' = Join(output, <<NL>>)
  /\ fm_pc' = "done"
  /\ UNCHANGED <<fm_segments, fm_k, fm_current_speaker, fm_buffer>>
  /\ UNCHANGED <<serviceVars, normVars, chunkerVars, segVars, splitVars, cleanVars, backfillVars>>

NextFmt ==
  \/ FmtSkip
  \/ FmtNewSpeaker
  \/ FmtSameSpeaker
  \/ FmtReturn

SpecFmt == InitFmt /\ [][NextFmt]_vars

(***************************************************************************)
(* TranscriptionService.save_to_db_existing_transcriptions.  A directory   *)
(* entry has a name, is a file or a directory, and a file holds bytes:     *)
(* "a", carriage return, line feed, or a byte that is not UTF-8.           *)
(***************************************************************************)
MaxBackfillFiles == 2

CR == "\r"
BAD == "0xFF"
TXT == <<".", "t", "x", "t">>

BackfillNames ==
  { <<"a">> \o TXT, <<"b">> \o TXT, <<"c", ".", "T", "X", "T">>, TXT,
    <<"d", ".", "m", "d">> }

BackfillContents ==
  { <<>>, <<"a">>, <<"a", CR, NL, "a">>, <<"a", CR, "a">>, <<"a", NL, "a">>,
    <<BAD>> }

BackfillEntries ==
  [name : BackfillNames, kind : {"file"}, bytes : BackfillContents]
    \cup [name : BackfillNames, kind : {"dir"}, bytes : {<<>>}]

\* the directories of at most max entries, no two of one name, in each order
\* iterdir may yield
BackfillListings(max) ==
  UNION { { l \in [1..n -> BackfillEntries] :
              \A a, b \in 1..n : a # b => l[a].name # l[b].name } : n \in 0..max }

\* line 231: Path.suffix, from the last dot of the name, unless that dot
\* opens or ends the name
suffix(name) ==
  LET dots == {k \in 1..Len(name) : name[k] = "."}
      last == IF dots = {} THEN 0 ELSE CHOOSE k \in dots : \A d \in dots : d <= k
  IN  IF last > 1 /\ last < Len(name) THEN SubSeq(name, last, Len(name)) ELSE <<>>

RECURSIVE UniversalNewlines(_)
\* text mode with newline=None: "\r\n" and "\r" are read as "\n"
UniversalNewlines(s) ==
  IF s = <<>> THEN <<>>
  ELSE IF Head(s) = CR
       THEN IF Len(s) >= 2 /\ s[2] = NL
            THEN <<NL>> \o UniversalNewlines(SubSeq(s, 3, Len(s)))
            ELSE <<NL>> \o UniversalNewlines(Tail(s))
       ELSE <<Head(s)>> \o UniversalNewlines(Tail(s))

\* the file can be opened and decoded
Readable(e) == e.kind = "file" /\ \A k \in 1..Len(e.bytes) : e.bytes[k] # BAD

\* read_text, had the file been opened in binary mode
read_bytes(e) == e.bytes

\* lines 232-233: open(file_path, "r", encoding="utf-8") and f.read()
read_text(e) == UniversalNewlines(e.bytes)

\* the repository's create_text_only_entry
repo_create_text_only_entry(tbl, filename, full_text) ==
  Append(tbl, [filename |-> filename, full_text |-> full_text])

InitBackfill ==
  /\ ServiceInit /\ NormOff /\ ChunkerOff /\ SegOff /\ SplitOff /\ CleanOff
  /\ FmtOff
  /\ bf_exists \in BOOLEAN
  /\ bf_listing \in BackfillListings(MaxBackfillFiles)
  /\ ~bf_exists => bf_listing = <<>>
  /\ bf_pc = "start"
  /\ bf_pos = 0
  /\ bf_entries = <<>>

\* lines 226-228: the directory does not exist
BfMissing ==
  /\ bf_pc = "start"
  /\ ~bf_exists
  /\ bf_pc' = "returned"
  /\ UNCHANGED <<bf_exists, bf_listing, bf_pos, bf_entries>>
  /\ UNCHANGED <<serviceVars, normVars, chunkerVars, segVars, splitVars, cleanVars, fmtVars>>

\* lines 226-230: the directory exists and is listed
BfList ==
  /\ bf_pc = "start"
  /\ bf_exists
  /\ bf_pc' = "loop"
  /\ bf_pos' = 1
  /\ UNCHANGED <<bf_exists, bf_listing, bf_entries>>
  /\ UNCHANGED <<serviceVars, normVars, chunkerVars, segVars, splitVars, cleanVars, fmtVars>>

\* line 231: the suffix is not ".txt"
BfSkip ==
  /\ bf_pc = "loop"
  /\ bf_pos <= Len(bf_listing)
  /\ suffix(bf_listing[bf_pos].name) # TXT
  /\ bf_pos' = bf_pos + 1
  /\ UNCHANGED <<bf_exists, bf_listing, bf_pc, bf_entries>>
  /\ UNCHANGED <<serviceVars, normVars, chunkerVars, segVars, splitVars, cleanVars, fmtVars>>

\* lines 231-237: the file is read and its entry is created
BfImport ==
  /\ bf_pc = "loop"
  /\ bf_pos <= Len(bf_listing)
  /\ LET file_path == bf_listing[bf_pos] IN
     /\ suffix(file_path.name) = TXT
     /\ Readable(file_path)
     /\ bf_entries' = repo_create_text_only_entry(bf_entries, file_path.name,
                                                  read_text(file_path))
  /\ bf_pos' = bf_pos + 1
  /\ UNCHANGED <<bf_exists, bf_listing, bf_pc>>
  /\ UNCHANGED <<serviceVars, normVars, chunkerVars, segVars, splitVars, cleanVars, fmtVars>>

\* lines 232-233: open raises for a directory, read for bytes that are not
\* UTF-8; nothing catches it
BfReadFail ==
  /\ bf_pc = "loop"
  /\ bf_pos <= Len(bf_listing)
  /\ suffix(bf_listing[bf_pos].name) = TXT
  /\ ~Readable(bf_listing[bf_pos])
  /\ bf_pc' = "raised"
  /\ UNCHANGED <<bf_exists, bf_listing, bf_pos, bf_entries>>
  /\ UNCHANGED <<serviceVars, normVars, chunkerVars, segVars, splitVars, cleanVars, fmtVars>>

\* lines 234-237: the repository raises; nothing catches it
BfInsertFail ==
  /\ bf_pc = "loop"
  /\ bf_pos <= Len(bf_listing)
  /\ suffix(bf_listing[bf_pos].name) = TXT
  /\ Readable(bf_listing[bf_pos])
  /\ bf_pc' = "raised"
  /\ UNCHANGED <<bf_exists, bf_listing, bf_pos, bf_entries>>
  /\ UNCHANGED <<serviceVars, normVars, chunkerVars, segVars, splitVars, cleanVars, fmtVars>>

\* line 230: the listing is exhausted
BfReturn ==
  /\ bf_pc = "loop"
  /\ bf_pos > Len(bf_listing)
  /\ bf_pc' = "returned"
  /\ UNCHANGED <<bf_exists, bf_listing, bf_pos, bf_entries>>
  /\ UNCHANGED <<serviceVars, normVars, chunkerVars, segVars, splitVars, cleanVars, fmtVars>>

NextBackfill ==
  \/ BfMissing
  \/ BfList
  \/ BfSkip
  \/ BfImport
  \/ BfReadFail
  \/ BfInsertFail
  \/ BfReturn

SpecBackfill == InitBackfill /\ [][NextBackfill]_vars

(***************************************************************************)
(* post_process and run side by side: a behaviour follows either one call  *)
(* of post_process or the runs of the service.                             *)
(***************************************************************************)
InitTerm == Init \/ InitNorm

NextTerm ==
  \/ np_pc = "off" /\ Next
  \/ NextNorm

SpecTerm == InitTerm /\ [][NextTerm]_vars

(***************************************************************************)
(* The claims.                                                             *)
(***************************************************************************)
MediaIds == 1..Len(media)
TransIds == 1..Len(trans)

HasTrans(id) == \E t \in TransIds : trans[t].media_file_id = id
TransOf(id) == CHOOSE t \in TransIds : trans[t].media_file_id = id

\* the generations of chunks a transcription holds
Gens(tid) == {chunks[k].gen : k \in {j \in 1..Len(chunks) : chunks[j].transcription_id = tid}}

\* run has gone past the processing that made MediaRecord id
Finished(id) == hist[id].outcome # "running" /\ ~(pc = "archive" /\ file_id = id)

\* C1: in every state, between any two persistence operations and after any
\* failure, the chunks of one transcription are all raw or all clean
C1_RawXorClean == \A tid \in TransIds : Cardinality(Gens(tid)) <= 1

\* a failed processing has left raw chunks, a later one has swapped to clean
C1_Witness ==
  \E t1, t2 \in TransIds : Gens(t1) = {"raw"} /\ Gens(t2) = {"clean"}

\* C2: when process_file has returned, no raw chunk was left when the clean
\* chunks were inserted, and the chunks of the transcription are exactly the
\* pieces of _text_splitter over the normalized text, indexed 0..n-1 in list
\* order, each with a null embedding
C2_FinalChunkSet ==
  \A id \in MediaIds :
    hist[id].outcome = "returned" =>
      /\ HasTrans(id)
      /\ hist[id].raw_at_insert = 0
      /\ LET tid  == TransOf(id)
             rows == ChunksOf(chunks, tid)
             want == _text_splitter(trans[tid].full_text, CHUNK_SIZE)
         IN  /\ trans[tid].full_text # None
             /\ Len(rows) = Len(want)
             /\ \A k \in 1..Len(rows) :
                  /\ rows[k].chunk_index = k - 1
                  /\ rows[k].text_content = want[k]
                  /\ rows[k].embedding = None
                  /\ rows[k].gen = "clean"

\* two raw chunks were replaced by several clean ones
C2_Witness ==
  \E id \in MediaIds :
    /\ hist[id].outcome = "returned"
    /\ hist[id].raw_deleted = 2
    /\ Len(ChunksOf(chunks, TransOf(id))) >= 2

\* C3 as claimed: once process_file has returned for a file, its MediaRecord
\* is COMPLETED
C3_CompletedOnReturn ==
  \A id \in MediaIds : hist[id].outcome = "returned" => media[id].status = "COMPLETED"

\* C4: a MediaRecord whose processing raised in one of the steps from the
\* conversion to the chunk swap keeps the status PROCESSING
C4_StatusKeptOnFailure ==
  \A id \in MediaIds : hist[id].outcome = "raised" => media[id].status = "PROCESSING"

C4_Witness ==
  \E id \in MediaIds :
    /\ hist[id].outcome = "raised"
    /\ hist[id].at \in {"extract", "split", "transcribe", "create_chunk", "normalize",
                        "update_full_text", "delete_chunks", "save_chunks"}
    /\ pc = "idle"

\* C5: during a run, process_file has been called once for every candidate
\* the loop has passed and for none it has not reached, so that at the end of
\* the list every candidate was processed exactly once
C5_EveryCandidateOnce ==
  pc # "idle" =>
    /\ Len(invoked) = Len(input_files)
    /\ pos \in 1..(Len(input_files) + 1)
    /\ \A k \in 1..Len(input_files) :
         invoked[k] = IF k < pos THEN 1
                      ELSE IF k > pos THEN 0
                      ELSE IF pc = "loop" THEN 0 ELSE 1

\* the first of two candidates raised and the run has reached the end
C5_Witness ==
  /\ pc = "loop"
  /\ Len(input_files) = 2
  /\ pos = 3
  /\ cand_id[1] # 0
  /\ hist[cand_id[1]].outcome = "raised"
  /\ invoked[2] = 1

\* C6 as claimed: a file is archived if and only if process_file returned
\* for it without raising
C6_ArchivedIffReturned ==
  \A id \in MediaIds :
    Finished(id) => (hist[id].archived <=> hist[id].outcome = "returned")

\* C6 as amended: a file is archived only if process_file returned for it,
\* and is archived under its own name when process_file returned unless the
\* move itself raised; a file whose processing raised stays in the input
\* directory and is not archived
C6_ArchivedOnlyIfReturned ==
  /\ \A id \in MediaIds :
       /\ hist[id].archived => hist[id].outcome = "returned"
       /\ (Finished(id) /\ hist[id].outcome = "returned" /\ ~hist[id].move_failed)
            => hist[id].archived
  /\ \A name \in archiveDir :
       \E id \in MediaIds : hist[id].name = name /\ hist[id].archived
  /\ \A k \in 1..Len(input_files) :
       (cand_id[k] # 0 /\ Finished(cand_id[k])) =>
         LET h == hist[cand_id[k]] IN
         /\ h.name = input_files[k]
         /\ h.outcome = "raised" =>
              (input_files[k] \in inputDir /\ ~h.archived)
         /\ h.archived =>
              (input_files[k] \in archiveDir /\ input_files[k] \notin inputDir)

\* of two candidates of one run, one was archived and the other raised
C6_Witness ==
  /\ Len(input_files) = 2
  /\ pos = 3
  /\ cand_id[1] # 0 /\ cand_id[2] # 0
  /\ hist[cand_id[1]].archived
  /\ hist[cand_id[2]].outcome = "raised"
  /\ input_files[1] \in archiveDir
  /\ input_files[2] \in inputDir

\* C7 as claimed: no candidate of a run bears the name of a file that was in
\* the archive directory when the run listed the input directory
C7_ArchivedNamesExcluded ==
  \A k \in 1..Len(input_files) : input_files[k] \notin archive_at_start

\* C8 as claimed: of two raw chunks of one transcription, the one with the
\* smaller index comes from the earlier segment; raw chunks are persisted in
\* the order of the segments' ordinals and no index is used twice
C8_IndexOrderIsChronological ==
  \A a, b \in 1..Len(chunks) :
    (/\ a < b
     /\ chunks[a].transcription_id = chunks[b].transcription_id
     /\ chunks[a].gen = "raw" /\ chunks[b].gen = "raw")
      => /\ chunks[a].chunk_index < chunks[b].chunk_index
         /\ OrdinalOf(chunks[a].path) < OrdinalOf(chunks[b].path)

\* C9: every segment the loop has dealt with was skipped without a call and
\* without a chunk when smaller than 5 * 1024 bytes, and was otherwise
\* transcribed by one call whose output is the text of its one raw chunk
C9_SkipOrTranscribeOnce ==
  pc \in {"transcribe_loop", "create_chunk", "update_full_text", "delete_chunks"} =>
    /\ Len(seglog) = IF pc = "create_chunk" THEN i ELSE i - 1
    /\ \A k \in 1..Len(seglog) :
         LET e    == seglog[k]
             rows == SelectSeq(chunks, LAMBDA c :
                       c.transcription_id = transcription_id /\ c.path = e.path)
         IN  /\ e.path = audio_chunk_paths[k]
             /\ e.size < 5 * 1024 => (e.calls = 0 /\ rows = <<>>)
             /\ e.size >= 5 * 1024 =>
                  /\ e.calls = 1
                  /\ IF k < i
                     THEN /\ Len(rows) = 1
                          /\ rows[1].text_content = e.out
                          /\ rows[1].gen = "raw"
                     ELSE rows = <<>>

\* a segment was skipped, the next one was transcribed, the loop is over
C9_Witness ==
  /\ pc = "transcribe_loop"
  /\ i > Len(audio_chunk_paths)
  /\ Len(seglog) >= 2
  /\ seglog[1].size < 5 * 1024
  /\ seglog[2].size >= 5 * 1024

\* C10: when transcribe has raised on segment k of a file, process_file has
\* raised: no chunk of that or a later segment exists, the chunks persisted
\* before are raw and remain, the normaliser was not called, the full text
\* is unset and the file was not archived
C10_TranscribeFailureFailsFile ==
  \A id \in MediaIds :
    hist[id].at = "transcribe" =>
      /\ hist[id].outcome = "raised"
      /\ hist[id].norm_calls = 0
      /\ ~hist[id].archived
      /\ HasTrans(id)
      /\ trans[TransOf(id)].full_text = None
      /\ LET rows == ChunksOf(chunks, TransOf(id)) IN
         /\ Len(rows) = hist[id].kept
         /\ \A k \in 1..Len(rows) :
              /\ rows[k].gen = "raw"
              /\ rows[k].chunk_index < hist[id].fail_seg - 1

\* transcribe raised on the second segment, after the first was persisted
C10_Witness ==
  \E id \in MediaIds :
    /\ hist[id].at = "transcribe"
    /\ hist[id].fail_seg = 2
    /\ Len(ChunksOf(chunks, TransOf(id))) = 1
    /\ pc = "idle"

\* the generation calls made for chunk j so far, in order
CallsOf(j) == SelectSeq(np_log, LAMBDA e : e.ev = "call" /\ e.k = j)

\* the last call made for chunk j has failed
LastFailed(j) ==
  LET c == CallsOf(j) IN c # <<>> /\ c[Len(c)].kind # "ok"

\* what _gemini_api_call did for each chunk, as post_process sees it
RespOf ==
  [j \in 1..Len(np_chunks) |-> IF LastFailed(j) THEN FAIL ELSE Clean(np_chunks[j])]

\* C11: post_process makes one part per chunk, in the order of the chunks,
\* part j being the model's text for chunk j or chunk j itself; the calls
\* for a chunk begin only when the chunk before it has succeeded or used up
\* its attempts; the result is the parts joined by a blank line
C11_OrderStableComplete ==
  np_pc \in {"attempt", "returned", "persisted"} =>
    /\ Len(np_parts) = np_k - 1
    /\ \A j \in 1..Len(np_parts) :
         np_parts[j] \in {Clean(np_chunks[j]), np_chunks[j]}
    /\ \A x, y \in 1..Len(np_log) : x < y => np_log[x].k <= np_log[y].k
    /\ \A y \in 1..Len(np_log) :
         (np_log[y].ev = "call" /\ np_log[y].k > 1) =>
           \E x \in 1..(y - 1) :
             /\ np_log[x].ev = "call"
             /\ np_log[x].k = np_log[y].k - 1
             /\ (np_log[x].kind = "ok" \/ np_log[x].attempt = MAX_RETRIES)
    /\ np_pc \in {"returned", "persisted"} =>
         /\ Len(np_parts) = Len(np_chunks)
         /\ np_result = Join(np_parts, SEP)
         /\ np_result = post_process(np_input, RespOf)

\* three chunks, one of them taken raw, the parts joined
C11_Witness ==
  /\ np_pc = "returned"
  /\ Len(np_chunks) = 3
  /\ LastFailed(1) /\ ~LastFailed(2) /\ ~LastFailed(3)
  /\ np_result = np_chunks[1] \o SEP \o Clean(np_chunks[2]) \o SEP \o Clean(np_chunks[3])

\* C12: whichever chunks fail on all their attempts, post_process does not
\* raise on a text: the part of a failed chunk is the chunk verbatim, the
\* part of any other chunk is the model's text, and process_file stores the
\* joined result
C12_FallbackVerbatim ==
  np_input # None =>
    /\ np_pc # "raised"
    /\ \A j \in 1..(np_k - 1) :
         /\ LastFailed(j) => np_parts[j] = np_chunks[j]
         /\ ~LastFailed(j) => np_parts[j] = Clean(np_chunks[j])
    /\ np_pc = "persisted" =>
         np_saved = Join([j \in 1..Len(np_chunks) |->
                            IF LastFailed(j) THEN np_chunks[j]
                            ELSE Clean(np_chunks[j])], SEP)

\* chunk 2 of 3 failed on every attempt, the others succeeded, the text
\* was stored
C12_Witness ==
  /\ np_pc = "persisted"
  /\ Len(np_chunks) = 3
  /\ ~LastFailed(1) /\ LastFailed(2) /\ ~LastFailed(3)
  /\ Len(CallsOf(2)) = MAX_RETRIES
  /\ np_saved = Clean(np_chunks[1]) \o SEP \o np_chunks[2] \o SEP \o Clean(np_chunks[3])

\* C13: a chunk gets at least one and at most 3 generation calls, numbered
\* 1, 2, 3; no call follows its first success; it is given up only after
\* exactly 3 failed calls
C13_AttemptsBounded ==
  \A j \in 1..Len(np_chunks) :
    LET c == CallsOf(j) IN
    /\ Len(c) <= 3
    /\ \A m \in 1..Len(c) :
         /\ c[m].attempt = m
         /\ c[m].kind = "ok" => m = Len(c)
    /\ j < np_k => /\ Len(c) >= 1
                   /\ LastFailed(j) => Len(c) = 3
    /\ j = np_k => /\ Len(c) = np_attempt - 1
                   /\ \A m \in 1..Len(c) : c[m].kind \in FailureKinds
    /\ j > np_k => c = <<>>

\* one chunk succeeded at its second call, another was given up
C13_Witness ==
  /\ np_pc = "returned"
  /\ \E j, l \in 1..Len(np_chunks) :
       /\ Len(CallsOf(j)) = 2 /\ ~LastFailed(j)
       /\ Len(CallsOf(l)) = 3 /\ LastFailed(l)

\* C14: a sleep is made only right after a failed call that is the first or
\* the second of its chunk, for 1 second after the first and 2 seconds after
\* the second; every such call is followed by its sleep; no sleep follows a
\* success or a third failure
C14_BackoffDelays ==
  \A x \in 1..Len(np_log) :
    LET e == np_log[x] IN
    /\ e.ev = "sleep" =>
         /\ x > 1
         /\ np_log[x - 1].ev = "call"
         /\ np_log[x - 1].kind \in FailureKinds
         /\ np_log[x - 1].k = e.k
         /\ np_log[x - 1].attempt = e.attempt
         /\ e.attempt \in {1, 2}
         /\ e.delay = IF e.attempt = 1 THEN 1 ELSE 2
    /\ (e.ev = "call" /\ e.kind \in FailureKinds /\ e.attempt < 3) =>
         (x < Len(np_log) /\ np_log[x + 1].ev = "sleep")
    /\ (e.ev = "call" /\ (e.kind = "ok" \/ e.attempt = 3) /\ x < Len(np_log)) =>
         np_log[x + 1].ev = "call"

\* a chunk slept 1 and 2 seconds, failed a third time, and the next chunk
\* was called without a sleep
C14_Witness ==
  \E x \in 1..Len(np_log) :
    /\ x + 5 <= Len(np_log)
    /\ np_log[x].ev = "call" /\ np_log[x].attempt = 1
    /\ np_log[x + 1].ev = "sleep" /\ np_log[x + 1].delay = 1
    /\ np_log[x + 3].ev = "sleep" /\ np_log[x + 3].delay = 2
    /\ np_log[x + 4].ev = "call" /\ np_log[x + 4].attempt = 3
    /\ np_log[x + 4].kind \in FailureKinds
    /\ np_log[x + 5].ev = "call" /\ np_log[x + 5].k = np_log[x].k + 1

\* C15 as claimed: post_process refuses None and the empty string before it
\* splits the text and before any generation call
C15_NullAndEmptyRejected ==
  np_input \in {None, <<>>} =>
    /\ np_pc \in {"off", "called", "raised"}
    /\ np_chunks = <<>>
    /\ np_log = <<>>

\* C16: a response without candidates, a candidate without content and a
\* transport error are dealt with in one way: the call counts as a failed
\* attempt, the next call for the chunk is the next attempt while one
\* remains, after the last one the chunk is taken raw, and no part comes
\* from a failed call
C16_FailuresAlike ==
  /\ \A x \in 1..Len(np_log) :
       LET e == np_log[x] IN
       (e.ev = "call" /\ e.kind \in FailureKinds) =>
         /\ e.attempt < MAX_RETRIES =>
              /\ np_k = e.k
                 \/ \E y \in (x + 1)..Len(np_log) :
                      /\ np_log[y].ev = "call" /\ np_log[y].k = e.k
                      /\ np_log[y].attempt = e.attempt + 1
              /\ x + 2 <= Len(np_log) =>
                   /\ np_log[x + 2].ev = "call" /\ np_log[x + 2].k = e.k
                   /\ np_log[x + 2].attempt = e.attempt + 1
         /\ e.attempt = MAX_RETRIES =>
              /\ e.k < np_k
              /\ np_parts[e.k] = np_chunks[e.k]
  /\ \A j \in 1..Len(np_parts) :
       np_parts[j] # np_chunks[j] =>
         (~LastFailed(j) /\ np_parts[j] = Clean(np_chunks[j]))

\* the three calls of one chunk failed in the three ways and the chunk was
\* taken raw
C16_Witness ==
  \E j \in 1..Len(np_parts) :
    /\ Len(CallsOf(j)) = 3
    /\ {CallsOf(j)[m].kind : m \in 1..3} = FailureKinds
    /\ np_parts[j] = np_chunks[j]
    /\ np_pc = "persisted"

\* the paragraphs of a text, one longer than the budget standing as the
\* pieces textwrap cuts it into
ParagraphsOrPieces(text, size) ==
  LET ps == SplitParagraphs(text)
      F[k \in 0..Len(ps)] ==
        IF k = 0 THEN <<>>
        ELSE F[k - 1] \o (IF Len(ps[k]) > size
                          THEN textwrap_wrap(ps[k], size) ELSE <<ps[k]>>)
  IN  F[Len(ps)]

\* C17 as claimed: neither _create_smart_chunks nor _text_splitter returns
\* an empty chunk, whatever the text and the budget
C17_NoEmptyChunk ==
  /\ "smart" \in ck_done => \A k \in 1..Len(ck_smart) : ck_smart[k] # <<>>
  /\ "split" \in ck_done => \A k \in 1..Len(ck_split) : ck_split[k] # <<>>

\* C18 as claimed: the chunks of _create_smart_chunks, joined by a blank
\* line and split on it again, are the paragraphs of the text, each once and
\* in order, a paragraph longer than the budget standing as its pieces
C18_ParagraphsPreserved ==
  "smart" \in ck_done =>
    SplitParagraphs(Join(ck_smart, SEP)) = ParagraphsOrPieces(ck_text, ck_size)

\* C19 as claimed: a chunk of _create_smart_chunks is no longer than the
\* budget, separators included, unless it is a piece of a paragraph that is
\* itself longer than the budget
C19_ChunkWithinBudget ==
  "smart" \in ck_done =>
    \A k \in 1..Len(ck_smart) :
      \/ Len(ck_smart[k]) <= ck_size
      \/ \E j \in 1..Len(SplitParagraphs(ck_text)) :
           LET para == SplitParagraphs(ck_text)[j] IN
           /\ Len(para) > ck_size
           /\ \E m \in 1..Len(textwrap_wrap(para, ck_size)) :
                textwrap_wrap(para, ck_size)[m] = ck_smart[k]

\* C20: the segment duration is the floor of 0.95 times the budget over the
\* byte rate: it is at least 1 second for a budget of 1 MiB or more, and a
\* segment of that duration is no larger than the budget
C20_SegmentDuration ==
  seg_time # -1 =>
    /\ seg_time * BYTES_PER_SEC * 20 <= seg_mb * 1024 * 1024 * 19
    /\ (seg_time + 1) * BYTES_PER_SEC * 20 > seg_mb * 1024 * 1024 * 19
    /\ seg_mb >= 1 => seg_time >= 1
    /\ seg_time * BYTES_PER_SEC <= seg_mb * 1024 * 1024

\* the default budget of 24 MiB gives 747 seconds
C20_Witness == seg_mb = 24 /\ seg_time = 747

\* C21 as claimed: every file of the list an invocation of split returns was
\* written by that invocation, and two invocations on the same input return
\* the same list
C21_OnlyThisInvocation ==
  /\ \A j \in DOMAIN sp_log :
       (sp_log[j].outcome = "returned" /\ j = Len(sp_log) /\ sp_pc = "idle") =>
         \A n \in DOMAIN sp_log[j].ret :
           sp_dir[OrdinalOf(sp_log[j].ret[n])] = sp_log[j].call
  /\ \A j, k \in DOMAIN sp_log :
       (/\ sp_log[j].outcome = "returned" /\ sp_log[k].outcome = "returned"
        /\ sp_log[j].input = sp_log[k].input)
         => sp_log[j].ret = sp_log[k].ret

\* C22 as claimed: the list of segment paths that split returns and that
\* process_file iterates is in the order of the segments' ordinals
C22_SortedIsChronological ==
  \A a, b \in DOMAIN audio_chunk_paths :
    a < b => OrdinalOf(audio_chunk_paths[a]) < OrdinalOf(audio_chunk_paths[b])

\* C23 as claimed: split raises FileNotFoundError, with the output directory
\* as it was, when the input is missing; it raises a RuntimeError that holds
\* what ffmpeg wrote on stderr when ffmpeg exits with a non-zero status or
\* exits with status 0 having written no segment; and in none of these cases
\* does it return a list
C23_SplitFailures ==
  \A j \in DOMAIN sp_log :
    LET e == sp_log[j] IN
    /\ e.input = -1 =>
         /\ e.outcome = "FileNotFoundError"
         /\ (j = Len(sp_log) /\ sp_pc = "idle") =>
              sp_at_entry = <<sp_dir_exists, sp_dir>>
    /\ (e.input >= 0 /\ (e.exit = "nonzero" \/ e.produced = 0)) =>
         /\ e.outcome = "RuntimeError"
         /\ e.stderr # <<>> => e.detail = e.stderr
    /\ e.outcome # "returned" => e.ret = None

\* the segments whose text does not clean to nothing
FmtKept == SelectSeq(fm_segments, LAMBDA sg : clean_text(sg.text) # <<>>)

\* the places in FmtKept where a run of one speaker begins
SpeakerRunStarts ==
  {j \in 1..Len(FmtKept) : j = 1 \/ FmtKept[j].speaker # FmtKept[j - 1].speaker}

\* the place where the p-th run begins, and where it ends
SpeakerRunFirst(p) == CHOOSE j \in SpeakerRunStarts : Cardinality({q \in SpeakerRunStarts : q <= j}) = p
SpeakerRunLast(p) ==
  IF p = Cardinality(SpeakerRunStarts) THEN Len(FmtKept) ELSE SpeakerRunFirst(p + 1) - 1

\* C24: format_diarization returns one paragraph for each maximal run of
\* segments of one speaker among the segments that do not clean to nothing,
\* in the order of the segments; a paragraph is the speaker, ":", a newline
\* and the cleaned texts of the run joined by blanks; adjacent paragraphs
\* bear different speakers, and the result is the paragraphs joined
C24_OneParagraphPerRun ==
  fm_pc = "done" =>
    LET n == Cardinality(SpeakerRunStarts) IN
    /\ Len(fm_output) = n
    /\ \A p \in 1..n :
         LET first == SpeakerRunFirst(p)
             last  == SpeakerRunLast(p)
             texts == [j \in 1..(last - first + 1) |->
                         clean_text(FmtKept[first + j - 1].text)]
         IN  fm_output[p] =
               FmtKept[first].speaker \o <<":", NL>> \o Join(texts, <<SP>>)
                 \o (IF p < n THEN <<NL>> ELSE <<>>)
    /\ \A p \in 1..(n - 1) :
         SubSeq(fm_output[p], 1, 1) # SubSeq(fm_output[p + 1], 1, 1)
    /\ fm_result = Join(fm_output, <<NL>>)

\* a segment that cleans to nothing stands between two segments of one
\* speaker, which end up in one paragraph
C24_Witness ==
  /\ fm_pc = "done"
  /\ Len(fm_segments) = 3
  /\ fm_segments[1].speaker = <<"A">> /\ fm_segments[3].speaker = <<"A">>
  /\ clean_text(fm_segments[1].text) # <<>>
  /\ clean_text(fm_segments[2].text) = <<>>
  /\ clean_text(fm_segments[3].text) # <<>>
  /\ Len(fm_output) = 1

\* a filler matches somewhere in text as a whole word
HasFiller(text) ==
  \E f \in DOMAIN FILLERS : \E p \in 1..Len(text) : MatchesAt(FILLERS[f], text, p)

\* C25 as claimed: what clean_text returns holds no filler as a whole word,
\* no two whitespace characters in a row, and no whitespace at either end
C25_CleanedHasNoFiller ==
  cl_out # None =>
    /\ ~HasFiller(cl_out)
    /\ \A p \in 1..(Len(cl_out) - 1) :
         ~(cl_out[p] \in Whitespace /\ cl_out[p + 1] \in Whitespace)
    /\ cl_out = <<>> \/ (cl_out[1] \notin Whitespace /\ cl_out[Len(cl_out)] \notin Whitespace)

\* the transcriptions of MediaRecord id
ShellsOf(id) == {t \in TransIds : trans[t].media_file_id = id}

\* C26: a MediaRecord has at most one TranscriptionRecord, and has exactly one
\* once process_file is past its creation; every ChunkRecord references a
\* TranscriptionRecord that exists, and a chunk written by the processing
\* under way references the shell of this processing; the full text of a
\* transcription is unset until post_process has returned for it, and is
\* unset while the raw chunks are being written
C26_ShellBeforeChunks ==
  /\ \A id \in MediaIds : Cardinality(ShellsOf(id)) <= 1
  /\ pc \in {"transcribe_loop", "create_chunk", "update_full_text",
             "delete_chunks", "save_chunks", "clean_dir"} =>
       ShellsOf(file_id) = {transcription_id}
  /\ \A k \in 1..Len(chunks) :
       /\ chunks[k].transcription_id \in TransIds
       /\ Cardinality(ShellsOf(trans[chunks[k].transcription_id].media_file_id)) = 1
  /\ \A t \in TransIds :
       trans[t].full_text # None => hist[trans[t].media_file_id].norm_calls = 1
  /\ pc \in {"transcribe_loop", "create_chunk"} =>
       trans[transcription_id].full_text = None

\* a raw chunk has been written under a shell whose full text is unset, and
\* the transcription of an earlier file has its full text
C26_Witness ==
  /\ pc = "transcribe_loop"
  /\ \E k \in 1..Len(chunks) :
       chunks[k].transcription_id = transcription_id /\ chunks[k].gen = "raw"
  /\ \E t \in TransIds : t # transcription_id /\ trans[t].full_text # None

\* C27 as claimed: two MediaRecords bear the same file name only when the
\* file of the earlier one had been moved to the archive, so that the later
\* one belongs to another file
C27_OneMediaRecordPerFile ==
  \A a, b \in MediaIds :
    (a < b /\ media[a].filename = media[b].filename) => hist[a].archived

\* the place of a status on the way PENDING, PROCESSING, COMPLETED or FAILED
StatusRank(status) ==
  IF status = "PENDING" THEN 0 ELSE IF status = "PROCESSING" THEN 1 ELSE 2

\* C28: no step removes a MediaRecord or gives it to another file, moves its
\* status back to an earlier one, or moves it out of FAILED
C28_StatusMonotonic ==
  [][\A id \in MediaIds :
       /\ id \in 1..Len(media')
       /\ media'[id].filename = media[id].filename
       /\ StatusRank(media'[id].status) >= StatusRank(media[id].status)
       /\ media[id].status = "FAILED" => media'[id].status = "FAILED"]_vars

\* one record has gone from PENDING to PROCESSING and kept it through a
\* failure, the next one has just been created
C28_Witness ==
  /\ pc = "mark_processing"
  /\ media[file_id].status = "PENDING"
  /\ \E id \in MediaIds :
       hist[id].outcome = "raised" /\ media[id].status = "PROCESSING"

\* C29: the text handed to post_process is the texts of the raw chunks of the
\* transcription, which lie in ascending index order, joined by a blank
\* line; and the full text stored in the transcription is what post_process
\* returned for that text
C29_NormaliserInputAndOutput ==
  /\ pc \in {"update_full_text", "delete_chunks"} =>
       LET rows == ChunksOf(chunks, transcription_id) IN
       /\ \A a, b \in 1..Len(rows) : a < b => rows[a].chunk_index < rows[b].chunk_index
       /\ \A k \in 1..Len(rows) : rows[k].gen = "raw"
       /\ hist[file_id].norm_input =
            Join([k \in 1..Len(rows) |-> rows[k].text_content], SEP)
  /\ \A t \in TransIds :
       LET h == hist[trans[t].media_file_id] IN
       /\ trans[t].full_text # None => trans[t].full_text = h.norm_output
       /\ (h.norm_calls = 1 /\ ~(file_id = trans[t].media_file_id
                                 /\ pc = "update_full_text")
           /\ ~(h.outcome = "raised" /\ h.at = "update_full_text"))
            => trans[t].full_text = h.norm_output

\* the transcripts of two segments were joined, normalised and stored
C29_Witness ==
  /\ pc = "delete_chunks"
  /\ Len(ChunksOf(chunks, transcription_id)) = 2
  /\ trans[transcription_id].full_text = hist[file_id].norm_output
  /\ hist[file_id].norm_input = <<"a", NL, NL, "b", "b", "b">>

\* C30: no two processings use the same workspace directory
C30_WorkspacePerProcessing ==
  \A a, b \in MediaIds :
    (a # b /\ hist[a].job_dir # None /\ hist[b].job_dir # None)
      => hist[a].job_dir # hist[b].job_dir

\* a file is processed a second time while the workspace of its first
\* processing, which failed, still exists
C30_Witness ==
  \E a, b \in MediaIds :
    /\ a # b
    /\ media[a].filename = media[b].filename
    /\ hist[a].job_dir \in workspaces
    /\ hist[b].job_dir \in workspaces

\* C31: when every step up to the clean-chunk insert has succeeded and the
\* removal of the workspace directory fails, so that the directory is still
\* on disk, process_file has returned normally all the same and run goes on
\* to the archive move of that file
C31_CleanupBestEffort ==
  \A id \in MediaIds :
    ( /\ hist[id].raw_at_insert >= 0
      /\ hist[id].job_dir \in workspaces
      /\ ~(pc = "clean_dir" /\ file_id = id) ) =>
        /\ hist[id].outcome = "returned"
        /\ \/ pc = "archive" /\ file_id = id
           \/ hist[id].archived
           \/ hist[id].move_failed

\* the workspace of an archived file is still on disk
C31_Witness ==
  \E id \in MediaIds :
    /\ hist[id].outcome = "returned"
    /\ hist[id].job_dir \in workspaces
    /\ hist[id].archived
    /\ hist[id].name \in archiveDir

\* the entries of a listing that are files named *.txt
TxtFiles(listing) ==
  SelectSeq(listing, LAMBDA e : e.kind = "file" /\ suffix(e.name) = TXT)

\* the bytes of a file as text: a line feed that follows a carriage return
\* is dropped, and every carriage return reads as a line feed
DecodedText(b) ==
  LET idx == SelectSeq([k \in 1..Len(b) |-> k],
                       LAMBDA k : ~(b[k] = NL /\ k > 1 /\ b[k - 1] = CR))
  IN  [j \in 1..Len(idx) |-> IF b[idx[j]] = CR THEN NL ELSE b[idx[j]]]

\* C32 as claimed: when save_to_db_existing_transcriptions is over, there is
\* exactly one text-only entry per .txt file of the directory, holding the
\* file's text unchanged; no MediaRecord, transcription or ChunkRecord was
\* made and no segment was handled; for a missing directory nothing was done
C32_BackfillOneEntryPerTxtFile ==
  bf_pc \in {"returned", "raised"} =>
    /\ LET txt == TxtFiles(bf_listing)
       IN  bf_entries = [k \in 1..Len(txt) |->
                           [filename |-> txt[k].name, full_text |-> txt[k].bytes]]
    /\ ~bf_exists => bf_entries = <<>>
    /\ media = <<>> /\ trans = <<>> /\ chunks = <<>> /\ seglog = <<>>
    /\ workspaces = {}

\* C32 as the code has it: the entries are those of the directory entries
\* with suffix ".txt", in listing order, up to the first one whose reading
\* or insertion raises, which ends the function; an entry holds the file's
\* text with "\r\n" and "\r" read as "\n"; no MediaRecord, transcription or
\* ChunkRecord is made; for a missing directory nothing is done
C32_BackfillImportsUpToFailure ==
  bf_pc \in {"returned", "raised"} =>
    /\ LET seen == IF bf_pc = "returned" THEN bf_listing
                   ELSE SubSeq(bf_listing, 1, bf_pos - 1)
           txt  == SelectSeq(seen, LAMBDA e : suffix(e.name) = TXT)
       IN  bf_entries = [k \in 1..Len(txt) |->
                           [filename |-> txt[k].name,
                            full_text |-> DecodedText(txt[k].bytes)]]
    /\ bf_pc = "raised" => suffix(bf_listing[bf_pos].name) = TXT
    /\ ~bf_exists => bf_entries = <<>> /\ bf_pc = "returned"
    /\ media = <<>> /\ trans = <<>> /\ chunks = <<>> /\ seglog = <<>>
    /\ workspaces = {}

\* two files were imported, one of them with a carriage return, next to an
\* entry that is no .txt file
C32_Witness ==
  /\ bf_pc = "returned"
  /\ Len(bf_entries) = 2
  /\ Len(bf_listing) = 2
  /\ \E k \in 1..2 : \E j \in 1..Len(bf_listing[k].bytes) : bf_listing[k].bytes[j] = CR

\* C33 as claimed: for a text whose paragraphs are non-empty, carry no
\* whitespace at their ends and do not exceed the budget, _text_splitter and
\* _create_smart_chunks put the chunk boundaries between the same paragraphs,
\* which for such a text is to return the same chunks
C33_SameBoundaries ==
  ( /\ ck_done = {"smart", "split"}
    /\ \A k \in 1..Len(SplitParagraphs(ck_text)) :
         LET para == SplitParagraphs(ck_text)[k] IN
         /\ para # <<>>
         /\ Strip(para) = para
         /\ Len(para) <= ck_size ) =>
      ck_smart = ck_split

RECURSIVE WordsFrom(_, _, _)
\* the words of a text: its maximal runs of characters that are no whitespace
WordsFrom(s, k, cur) ==
  IF k > Len(s) THEN (IF cur = <<>> THEN <<>> ELSE <<cur>>)
  ELSE IF s[k] \in Whitespace
       THEN (IF cur = <<>> THEN <<>> ELSE <<cur>>) \o WordsFrom(s, k + 1, <<>>)
       ELSE WordsFrom(s, k + 1, Append(cur, s[k]))

Words(s) == WordsFrom(s, 1, <<>>)

\* some paragraph of the text is longer than the budget
HasOversize(text, size) ==
  \E k \in 1..Len(SplitParagraphs(text)) : Len(SplitParagraphs(text)[k]) > size

\* C34 as claimed: for a text with a paragraph longer than the budget, the
\* chunks of _create_smart_chunks hold the words of the text whole, each
\* once and in the order of the text; a paragraph longer than the budget
\* shares no chunk with another paragraph; and a chunk that is a piece of
\* such a paragraph is at most the budget long unless it is one word
C34_ForceSplitKeepsWords ==
  ("smart" \in ck_done /\ HasOversize(ck_text, ck_size)) =>
    /\ Words(Join(ck_smart, SEP)) = Words(ck_text)
    /\ \A k \in 1..Len(ck_smart) :
         LET ps == SplitParagraphs(ck_smart[k]) IN
         \/ Len(ps) > 1 /\ \A j \in 1..Len(ps) : Len(ps[j]) <= ck_size
         \/ Len(ck_smart[k]) <= ck_size
         \/ Len(Words(ck_smart[k])) = 1 /\ Words(ck_smart[k])[1] = ck_smart[k]

\* C35 as claimed: when the transcribe loop is over, the raw chunks of the
\* transcription are indexed 0..k-1 in the order of their insertion, without
\* gaps, also when the size guard has skipped segments
C35_RawIndexesDense ==
  (pc = "transcribe_loop" /\ i > Len(audio_chunk_paths)) =>
    LET rows == ChunksOf(chunks, transcription_id)
    IN  \A k \in 1..Len(rows) : rows[k].chunk_index = k - 1

\* how far one call of post_process has come: the chunks done, then the
\* attempts made for the current one
NormMeasure ==
  IF np_pc \in {"off", "called"} THEN 0
  ELSE IF np_pc = "attempt"
       THEN 1 + (np_k - 1) * MAX_RETRIES + (np_attempt - 1)
  ELSE IF np_pc = "returned" THEN 2 + Len(np_chunks) * MAX_RETRIES
  ELSE 3 + Len(np_chunks) * MAX_RETRIES

\* the steps process_file can take for one file
StageCount == 14 + 2 * (MaxSegments + 1)

\* how far process_file has come with the file at pos
Stage ==
  IF pc = "loop" THEN 0
  ELSE IF pc = "create_media" THEN 1
  ELSE IF pc = "mark_processing" THEN 2
  ELSE IF pc = "mkdir" THEN 3
  ELSE IF pc = "extract_audio" THEN 4
  ELSE IF pc = "split_audio" THEN 5
  ELSE IF pc = "init_transcription" THEN 6
  ELSE IF pc = "transcribe_loop" THEN 7 + 2 * (i - 1)
  ELSE IF pc = "create_chunk" THEN 8 + 2 * (i - 1)
  ELSE IF pc = "update_full_text" THEN StageCount - 5
  ELSE IF pc = "delete_chunks" THEN StageCount - 4
  ELSE IF pc = "save_chunks" THEN StageCount - 3
  ELSE IF pc = "clean_dir" THEN StageCount - 2
  ELSE StageCount - 1

\* how far a run has come: the files done, then the stage of the current one
RunMeasure == pos * StageCount + Stage

EventsOf(kind) == SelectSeq(np_log, LAMBDA e : e.ev = kind)

\* C36: every step of post_process brings it nearer to its end, which is at
\* most 3 attempts for each of the n chunks away, and by then it has made at
\* most 3n calls and 2n backoff delays, whatever the calls did; every step
\* of a run brings it nearer to the end of its list of candidates, and the
\* run ends with every candidate attempted exactly once
C36_Terminates ==
  [][ /\ np_pc # "off" =>
           /\ np_pc \notin {"raised", "persisted"}
           /\ NormMeasure' > NormMeasure
           /\ NormMeasure' <= 3 + Len(np_chunks') * MAX_RETRIES
           /\ Len(EventsOf("call"))' <= MAX_RETRIES * Len(np_chunks')
           /\ Len(EventsOf("sleep"))' <= (MAX_RETRIES - 1) * Len(np_chunks')
      /\ (pc # "idle" /\ <<pc, pos, i>>' # <<pc, pos, i>>) =>
           /\ pos \in 1..(Len(input_files) + 1)
           /\ Stage < StageCount
           /\ IF pc' = "idle"
              THEN /\ pos > Len(input_files)
                   /\ \A k \in 1..Len(input_files) : invoked[k] = 1
              ELSE /\ RunMeasure' > RunMeasure
                   /\ input_files' = input_files
    ]_vars

\* post_process is over for three chunks after 9 calls and 6 delays
C36_Witness ==
  /\ np_pc = "persisted"
  /\ Len(np_chunks) = 3
  /\ Len(EventsOf("call")) = 9
  /\ Len(EventsOf("sleep")) = 6

\* C37: when the insert of the clean chunks has raised, after the raw chunks
\* were deleted, process_file has raised: the transcription holds the
\* normalized text as its full text and no chunk at all, raw or clean, and
\* that processing has not archived the file
C37_FailedSwapLeavesNoChunks ==
  \A id \in MediaIds :
    hist[id].at = "save_chunks" =>
      /\ hist[id].outcome = "raised"
      /\ hist[id].raw_deleted >= 0
      /\ hist[id].raw_at_insert = -1
      /\ HasTrans(id)
      /\ trans[TransOf(id)].full_text # None
      /\ trans[TransOf(id)].full_text = hist[id].norm_output
      /\ ChunksOf(chunks, TransOf(id)) = <<>>
      /\ ~hist[id].archived

\* the insert raised after two raw chunks had been deleted, and the run is
\* over
C37_Witness ==
  \E id \in MediaIds :
    /\ hist[id].at = "save_chunks"
    /\ hist[id].raw_deleted = 2
    /\ hist[id].name \in inputDir
    /\ pc = "idle"

\* C38: a workspace directory that was created is gone only when
\* process_file has returned; when a step after its creation has raised, the
\* directory of that MediaRecord is still on disk, also after run has gone on
\* to the next file and after it has ended
C38_WorkspaceKeptOnFailure ==
  \A id \in MediaIds :
    hist[id].job_dir # None =>
      /\ hist[id].outcome = "raised" => hist[id].job_dir \in workspaces
      /\ hist[id].job_dir \notin workspaces => hist[id].outcome = "returned"

\* the first file of a run raised in the chunk swap; the second was processed
\* and archived, and the workspace of the first is still there
C38_Witness ==
  /\ Len(media) = 2
  /\ hist[1].outcome = "raised"
  /\ hist[1].at \in {"delete_chunks", "save_chunks"}
  /\ hist[1].job_dir \in workspaces
  /\ hist[2].archived
  /\ hist[2].job_dir \notin workspaces

\* C39: when the archive move of a file has raised, process_file had
\* returned for it: its MediaRecord is there, its transcription holds the
\* normalized text and the clean chunks of that text, the file was not
\* archived, run has gone on past it, and until the run ends the file is
\* still in the input directory, where the next run finds it
C39_MoveFailureKeepsFile ==
  /\ \A id \in MediaIds :
       hist[id].move_failed =>
         /\ hist[id].outcome = "returned"
         /\ ~hist[id].archived
         /\ media[id].filename = hist[id].name
         /\ HasTrans(id)
         /\ LET tid == TransOf(id) IN
            /\ trans[tid].full_text # None
            /\ trans[tid].full_text = hist[id].norm_output
            /\ Gens(tid) \subseteq {"clean"}
            /\ [k \in 1..Len(ChunksOf(chunks, tid)) |->
                  ChunksOf(chunks, tid)[k].text_content]
                 = _text_splitter(trans[tid].full_text, CHUNK_SIZE)
  /\ \A k \in 1..Len(input_files) :
       (cand_id[k] # 0 /\ hist[cand_id[k]].move_failed) =>
         /\ pos > k
         /\ input_files[k] \in inputDir
         /\ input_files[k] \notin archiveDir \ archive_at_start

\* the move of a file raised in one run, and a later run has processed the
\* same file again and archived it
C39_Witness ==
  /\ Len(media) = 2
  /\ hist[1].move_failed
  /\ hist[2].name = hist[1].name
  /\ hist[2].archived
  /\ Len(ChunksOf(chunks, TransOf(1))) >= 1

\* C40: a call of process_file for a path that does not exist changes
\* nothing: no MediaRecord, transcription or chunk is created or changed, no
\* workspace directory is made, no segment is handled and the normalizer is
\* not called; the exception goes to run, which takes the next file
C40_NotFoundHasNoEffect ==
  [][ ( /\ pc = "loop"
        /\ pos <= Len(input_files)
        /\ input_files[pos] \notin inputDir
        /\ invoked' # invoked ) =>
        /\ media' = media /\ trans' = trans /\ chunks' = chunks
        /\ workspaces' = workspaces
        /\ inputDir' = inputDir /\ archiveDir' = archiveDir
        /\ seglog' = seglog
        /\ hist' = hist
        /\ cand_id' = cand_id
        /\ pc' = "loop" /\ pos' = pos + 1
    ]_vars

\* the only candidate of a run was gone when process_file was called
C40_Witness ==
  /\ pc = "loop"
  /\ Len(input_files) = 1
  /\ pos = 2
  /\ invoked[1] = 1
  /\ cand_id[1] = 0
  /\ media = <<>>
  /\ workspaces = {}

====
